---- MODULE Spec2Model ----
(***************************************************************************)
(* Smart order router visualizer: the best-price routing allocator          *)
(* (SOREngine.generateRoutingPlan, executeBestPriceStrategy), the execution *)
(* replay (simulateExecution) and the order-book simulator                  *)
(* (MarketSimulator).                                                       *)
(*                                                                          *)
(* Numbers.  Prices are integers in ticks (the simulator rounds every price *)
(* to 2 decimals, so a price is a whole number of cents); quantities are    *)
(* integers.  A quotient the code computes in floating point (an average    *)
(* price) is kept as the exact fraction [num, den], and two such values are *)
(* compared by cross-multiplication.                                        *)
(***************************************************************************)
EXTENDS Integers, Sequences, FiniteSets, TLC

VARIABLES
    order,              \* the Order handed to generateRoutingPlan
    venues,             \* the Venue[] handed to generateRoutingPlan
    orderBooks,         \* the Map<venueId, OrderBook>: a function on the ids that have a book
    config,             \* the SORConfig
    outcome,            \* what generateRoutingPlan did: nothing yet, a thrown Error, a RoutingPlan
    replays,            \* simulateExecution's result for each decision of the plan, in order
    executionDetails,   \* the Map<venueId, VenueExecutionDetail> built from the replays
    pc,                 \* where the caller is: "input", "routed", "replayed"; "sim" in SpecSim
    basePrice,          \* MarketSimulator.basePrice, in PriceUnit-ths of a tick
    simBook,            \* the OrderBook the simulator returned last
    updates,            \* the number of updateOrderBook calls so far
    vwap,               \* what calculateVWAP returned, with the quantity it took per level
    now,                \* the clock Date.now() reads
    retry,              \* what a second generateRoutingPlan call on the same arguments did
    mapHeap,            \* the Map objects alive: reference -> entries <<[venueId, book]>>
    bookHeap,           \* the OrderBook objects alive: reference -> OrderBook
    storeBooks,         \* the store's orderBooks field: a reference into mapHeap
    snapshot,           \* a map a reader obtained from the store, and what it held then
    currentOrder,       \* the store's currentOrder (null: NoOrder)
    isExecuting,        \* the store's isExecuting
    isPaused,           \* the store's isPaused
    routingPlan,        \* the store's routingPlan (null: NoPlan)
    currentStepIndex,   \* the store's currentStepIndex
    executionSteps,     \* the store's executionSteps
    animationTimerId,   \* the store's animationTimerId (null: 0)
    timers,             \* the interval timers of the window that are not cleared
    calls,              \* the number of calls of the store's handlers so far
    lastToggle,         \* the last toggleVenue call: its venue and the book it generated
    shown,              \* the step indices displayed since the playback began
    aggregated,         \* what AggregatedOrderBook computed from its props
    slicing             \* a VWAPConfig, the time slots, and the slices computed from them

simVars == <<basePrice, simBook, updates>>
walkVars == <<vwap>>
retryVars == <<now, retry>>
heapVars == <<mapHeap, bookHeap, storeBooks, snapshot>>
playVars == <<currentOrder, isExecuting, isPaused, routingPlan, currentStepIndex,
              executionSteps, animationTimerId, timers, shown>>
viewVars == <<aggregated, slicing>>
storeVars == <<heapVars, playVars, calls, lastToggle, viewVars>>
vars == <<order, venues, orderBooks, config, outcome, replays, executionDetails, pc,
          simVars, walkVars, retryVars, storeVars>>

(***************************** bounds ***************************************)
MaxPrice == 2       \* bid prices are 1..MaxPrice, ask prices MaxPrice+1..2*MaxPrice
MaxLevelQty == 2    \* a level's quantity is 0..MaxLevelQty
MaxOrderQty == 3    \* an order's quantity is 0..MaxOrderQty
MaxMinQty == 2      \* config.minQuantityPerVenue is 0 or MaxMinQty
MaxNow == 1         \* the clock runs from 0 to MaxNow

Min(a, b) == IF a <= b THEN a ELSE b
Abs(a) == IF a < 0 THEN 0 - a ELSE a

RECURSIVE SumOver(_, _)
\* s.reduce((sum, x) => sum + f(x), 0), f given as a function on the elements
SumOver(s, f) == IF s = <<>> THEN 0 ELSE f[Head(s)] + SumOver(Tail(s), f)

RECURSIVE Filter(_, _)
\* s.filter(x => x \in keep)
Filter(s, keep) ==
    IF s = <<>> THEN <<>>
    ELSE IF Head(s) \in keep THEN <<Head(s)>> \o Filter(Tail(s), keep)
    ELSE Filter(Tail(s), keep)

(***************************** types ****************************************)
BID == "BID"
ASK == "ASK"
OrderSide == {BID, ASK}

BEST_PRICE == "BEST_PRICE"
RoutingStrategy ==
    {"BEST_PRICE", "PRO_RATA", "VWAP", "TWAP", "MINIMIZE_IMPACT", "MINIMIZE_COST"}

\* The messages of the Errors generateRoutingPlan throws.
ErrInvalidOrder == "Invalid order: quantity must be positive"
ErrNoVenues == "No venues provided"
ErrNoOrderBooks == "No order books provided"
ErrNoEligibleVenues == "No eligible venues available for routing"
ErrNotImplemented == "Strategy not yet implemented"
ErrUnknownStrategy == "Unknown routing strategy"
ErrUnallocatable == "Unable to allocate any quantity to venues"
ErrInsufficientLiquidity == "Insufficient liquidity"

\* A thrown Error: its message, and the values the message interpolates.
Thrown(msg) == [kind |-> "error", message |-> msg, detail |-> <<>>]
ThrownNotImplemented(strategy) ==
    [kind |-> "error", message |-> ErrNotImplemented, detail |-> <<strategy>>]
ThrownUnknownStrategy(strategy) ==
    [kind |-> "error", message |-> ErrUnknownStrategy, detail |-> <<strategy>>]
ThrownInsufficient(req, avail) ==
    [kind |-> "error", message |-> ErrInsufficientLiquidity, detail |-> <<req, avail>>]
Returned(plan) == [kind |-> "plan", plan |-> plan]
NoOutcome == [kind |-> "none"]

(***************************** SOREngine ************************************)
createDefaultConfig ==
    [strategy |-> BEST_PRICE,
     maxVenues |-> 10,
     minQuantityPerVenue |-> 0,
     considerFees |-> TRUE,
     considerLatency |-> FALSE,
     allowPartialFills |-> TRUE]

\* "ok", or the message of the Error thrown; the checks in the code's order.
validateInputs(o, vs, books) ==
    IF o.quantity <= 0 THEN ErrInvalidOrder
    ELSE IF Len(vs) = 0 THEN ErrNoVenues
    ELSE IF Cardinality(DOMAIN books) = 0 THEN ErrNoOrderBooks
    ELSE "ok"

\* Mutant: the filter forgets the active flag.
filterVenuesIgnoringActive(vs, books, cfg) ==
    Filter(vs, {v \in {vs[i] : i \in DOMAIN vs} : v.id \in DOMAIN books})

\* venues.filter(venue => venue.active && orderBooks.has(venue.id))
filterVenues(vs, books, cfg) ==
    Filter(vs, {v \in {vs[i] : i \in DOMAIN vs} : v.active /\ v.id \in DOMAIN books})

\* The side of the book an order consumes: a buyer takes the asks, a seller the bids.
bookSide(o) == IF o.side = BID THEN "ask" ELSE "bid"
sideLevels(book, side) == IF side = "bid" THEN book.bids ELSE book.asks

\* One venue's levels of the consuming side, each tagged with its venue.
taggedLevels(v, book, side) ==
    [i \in DOMAIN sideLevels(book, side) |->
        [venueId |-> v.id,
         price |-> sideLevels(book, side)[i].price,
         quantity |-> sideLevels(book, side)[i].quantity]]

RECURSIVE allPriceLevels(_, _, _)
\* venues.forEach(venue => levels.forEach(level => allPriceLevels.push(...)))
allPriceLevels(vs, books, side) ==
    IF vs = <<>> THEN <<>>
    ELSE LET v == Head(vs)
             rest == allPriceLevels(Tail(vs), books, side)
         IN IF ~v.active \/ v.id \notin DOMAIN books THEN rest
            ELSE taggedLevels(v, books[v.id], side) \o rest

\* Mutant: the comparator sorts ascending whatever the side of the order.
comparePriceAscending(a, b, o) == a.price - b.price

\* The sort's comparator: negative when a goes first.
comparePrice(a, b, o) ==
    IF o.side = BID THEN a.price - b.price ELSE b.price - a.price

RECURSIVE insertLevel(_, _, _)
insertLevel(x, sorted, o) ==
    IF sorted = <<>> THEN <<x>>
    ELSE IF comparePrice(x, Head(sorted), o) <= 0 THEN <<x>> \o sorted
    ELSE <<Head(sorted)>> \o insertLevel(x, Tail(sorted), o)

\* Mutant: the list is consumed as flattened, without the sort.
sortPriceLevelsNone(levels, o) == levels

RECURSIVE sortPriceLevels(_, _)
\* allPriceLevels.sort(comparator): Array.prototype.sort is stable, so levels of equal
\* price keep the order in which they were pushed.
sortPriceLevels(levels, o) ==
    IF levels = <<>> THEN <<>>
    ELSE insertLevel(Head(levels), sortPriceLevels(Tail(levels), o), o)

RECURSIVE consumeLevelsNoDecrement(_, _, _)
\* Mutant: the loop forgets remainingQuantity -= quantityToTake.
consumeLevelsNoDecrement(levels, remainingQuantity, priority) ==
    IF levels = <<>> \/ remainingQuantity <= 0 THEN <<>>
    ELSE LET level == Head(levels)
             quantityToTake == Min(remainingQuantity, level.quantity)
         IN <<[venueId |-> level.venueId,
               quantity |-> quantityToTake,
               expectedPrice |-> level.price,
               expectedFees |-> 0,
               priority |-> priority]>>
            \o consumeLevelsNoDecrement(Tail(levels), remainingQuantity, priority + 1)

RECURSIVE consumeLevelsSamePriority(_, _, _)
\* Mutant: the loop writes priority instead of priority++.
consumeLevelsSamePriority(levels, remainingQuantity, priority) ==
    IF levels = <<>> \/ remainingQuantity <= 0 THEN <<>>
    ELSE LET level == Head(levels)
             quantityToTake == Min(remainingQuantity, level.quantity)
         IN <<[venueId |-> level.venueId,
               quantity |-> quantityToTake,
               expectedPrice |-> level.price,
               expectedFees |-> 0,
               priority |-> priority]>>
            \o consumeLevelsSamePriority(Tail(levels), remainingQuantity - quantityToTake,
                                         priority)

RECURSIVE consumeLevels(_, _, _)
\* The allocation loop: one decision per level visited, until nothing remains.
consumeLevels(levels, remainingQuantity, priority) ==
    IF levels = <<>> \/ remainingQuantity <= 0 THEN <<>>
    ELSE LET level == Head(levels)
             quantityToTake == Min(remainingQuantity, level.quantity)
         IN <<[venueId |-> level.venueId,
               quantity |-> quantityToTake,
               expectedPrice |-> level.price,
               expectedFees |-> 0,
               priority |-> priority]>>
            \o consumeLevels(Tail(levels), remainingQuantity - quantityToTake, priority + 1)

\* Mutant: the strategy drops, for an ASK order with a limit, the bids above the limit.
executeBestPriceStrategyBidsUpToLimit(o, vs, books) ==
    LET all == allPriceLevels(vs, books, bookSide(o))
        kept == IF o.side = ASK /\ o.price # 0
                THEN Filter(all, {l \in {all[i] : i \in DOMAIN all} : l.price <= o.price})
                ELSE all
    IN consumeLevels(sortPriceLevels(kept, o), o.quantity, 0)

\* executeBestPriceStrategy, the strategy that follows SOREngine in the sources and
\* emits one decision per price level.  (core/sor/strategies/best-price.ts holds
\* another function of this name, which emits one decision per venue priced at the
\* venue's VWAP; it is not the one modelled here.)
executeBestPriceStrategy(o, vs, books) ==
    consumeLevels(sortPriceLevels(allPriceLevels(vs, books, bookSide(o)), o), o.quantity, 0)

\* Mutant: the filter drops the empty decisions only.
filterMinQuantityPositive(decisions, cfg) ==
    IF cfg.minQuantityPerVenue > 0
    THEN Filter(decisions, {d \in {decisions[i] : i \in DOMAIN decisions} : d.quantity > 0})
    ELSE decisions

\* decisions.filter(d => d.quantity >= config.minQuantityPerVenue), when that is > 0
filterMinQuantity(decisions, cfg) ==
    IF cfg.minQuantityPerVenue > 0
    THEN Filter(decisions, {d \in {decisions[i] : i \in DOMAIN decisions} :
                                d.quantity >= cfg.minQuantityPerVenue})
    ELSE decisions

\* Mutant: the cut is off by one, decisions.slice(0, config.maxVenues - 1) from
\* maxVenues decisions on.
limitMaxVenuesOffByOne(decisions, cfg) ==
    IF cfg.maxVenues > 0 /\ Len(decisions) >= cfg.maxVenues
    THEN SubSeq(decisions, 1, cfg.maxVenues - 1)
    ELSE decisions

\* decisions.slice(0, config.maxVenues), when there are more than maxVenues > 0
limitMaxVenues(decisions, cfg) ==
    IF cfg.maxVenues > 0 /\ Len(decisions) > cfg.maxVenues
    THEN SubSeq(decisions, 1, cfg.maxVenues)
    ELSE decisions

totalQuantityOf(decisions) ==
    SumOver(decisions, [d \in {decisions[i] : i \in DOMAIN decisions} |-> d.quantity])

\* avgPrice and slippage are the fractions num/den; den > 0 wherever the code divides.
calculateMetrics(decisions, o) ==
    IF Len(decisions) = 0
    THEN [avgPrice |-> [num |-> 0, den |-> 1], totalCost |-> 0,
          slippage |-> [num |-> 0, den |-> 1]]
    ELSE LET ds == {decisions[i] : i \in DOMAIN decisions}
             totalQuantity == SumOver(decisions, [d \in ds |-> d.quantity])
             weightedPriceSum ==
                 SumOver(decisions, [d \in ds |-> d.expectedPrice * d.quantity])
             totalFees == SumOver(decisions, [d \in ds |-> d.expectedFees])
         IN [avgPrice |-> [num |-> weightedPriceSum, den |-> totalQuantity],
             totalCost |-> weightedPriceSum + totalFees,
             slippage |->
                 IF o.price # 0
                 THEN [num |-> Abs(weightedPriceSum - o.price * totalQuantity),
                       den |-> totalQuantity]
                 ELSE [num |-> 0, den |-> 1]]

RECURSIVE insertByPriority(_, _)
insertByPriority(d, sorted) ==
    IF sorted = <<>> THEN <<d>>
    ELSE IF d.priority - Head(sorted).priority <= 0 THEN <<d>> \o sorted
    ELSE <<Head(sorted)>> \o insertByPriority(d, Tail(sorted))

RECURSIVE sortByPriority(_)
\* decisions.sort((a, b) => a.priority - b.priority)
sortByPriority(decisions) ==
    IF decisions = <<>> THEN <<>>
    ELSE insertByPriority(Head(decisions), sortByPriority(Tail(decisions)))

\* Mutant: the case MINIMIZE_COST falls through to the best-price strategy.
selectStrategyFallThrough(cfg) ==
    IF cfg.strategy \in {BEST_PRICE, "MINIMIZE_COST"}
    THEN [kind |-> "run", strategy |-> BEST_PRICE]
    ELSE IF cfg.strategy \in {"PRO_RATA", "VWAP", "TWAP", "MINIMIZE_IMPACT"}
    THEN ThrownNotImplemented(cfg.strategy)
    ELSE ThrownUnknownStrategy(cfg.strategy)

\* Step 3 of generateRoutingPlan, the switch on config.strategy: the strategy that
\* runs, or the Error thrown.
selectStrategy(cfg) ==
    IF cfg.strategy = BEST_PRICE THEN [kind |-> "run", strategy |-> BEST_PRICE]
    ELSE IF cfg.strategy \in {"PRO_RATA", "VWAP", "TWAP", "MINIMIZE_IMPACT", "MINIMIZE_COST"}
    THEN ThrownNotImplemented(cfg.strategy)
    ELSE ThrownUnknownStrategy(cfg.strategy)

\* Mutant: step 6 never tests allowPartialFills.
buildPlanAlwaysPartial(o, cfg, strategyDecisions) ==
    LET decisions == limitMaxVenues(filterMinQuantity(strategyDecisions, cfg), cfg)
        totalAllocated == totalQuantityOf(decisions)
        metrics == calculateMetrics(decisions, o)
    IN IF totalAllocated = 0 THEN Thrown(ErrUnallocatable)
       ELSE Returned([strategy |-> cfg.strategy,
                      decisions |-> sortByPriority(decisions),
                      totalQuantity |-> totalAllocated,
                      estimatedAvgPrice |-> metrics.avgPrice,
                      estimatedTotalCost |-> metrics.totalCost,
                      estimatedSlippage |-> metrics.slippage])

\* Mutant: step 6 never tests totalAllocated === 0.
buildPlanNoZeroCheck(o, cfg, strategyDecisions) ==
    LET decisions == limitMaxVenues(filterMinQuantity(strategyDecisions, cfg), cfg)
        totalAllocated == totalQuantityOf(decisions)
        metrics == calculateMetrics(decisions, o)
    IN IF ~cfg.allowPartialFills /\ totalAllocated < o.quantity
       THEN ThrownInsufficient(o.quantity, totalAllocated)
       ELSE Returned([strategy |-> cfg.strategy,
                      decisions |-> sortByPriority(decisions),
                      totalQuantity |-> totalAllocated,
                      estimatedAvgPrice |-> metrics.avgPrice,
                      estimatedTotalCost |-> metrics.totalCost,
                      estimatedSlippage |-> metrics.slippage])

\* Steps 4 to 8, on the strategy's decisions.
buildPlan(o, cfg, strategyDecisions) ==
    LET decisions == limitMaxVenues(filterMinQuantity(strategyDecisions, cfg), cfg)
        totalAllocated == totalQuantityOf(decisions)
        metrics == calculateMetrics(decisions, o)
    IN IF totalAllocated = 0 THEN Thrown(ErrUnallocatable)
       ELSE IF ~cfg.allowPartialFills /\ totalAllocated < o.quantity
       THEN ThrownInsufficient(o.quantity, totalAllocated)
       ELSE Returned([strategy |-> cfg.strategy,
                      decisions |-> sortByPriority(decisions),
                      totalQuantity |-> totalAllocated,
                      estimatedAvgPrice |-> metrics.avgPrice,
                      estimatedTotalCost |-> metrics.totalCost,
                      estimatedSlippage |-> metrics.slippage])

\* Mutant: the priorities are derived from the clock.
stampedShiftingPriorities(out, t) ==
    IF out.kind # "plan" THEN out
    ELSE Returned([strategy |-> out.plan.strategy,
                   decisions |-> [i \in DOMAIN out.plan.decisions |->
                                     [out.plan.decisions[i] EXCEPT !.priority = @ + t]],
                   totalQuantity |-> out.plan.totalQuantity,
                   estimatedAvgPrice |-> out.plan.estimatedAvgPrice,
                   estimatedTotalCost |-> out.plan.estimatedTotalCost,
                   estimatedSlippage |-> out.plan.estimatedSlippage,
                   timestamp |-> t])

\* timestamp: Date.now(), the one field of the plan read from the clock.
stamped(out, t) ==
    IF out.kind # "plan" THEN out
    ELSE Returned([strategy |-> out.plan.strategy,
                   decisions |-> out.plan.decisions,
                   totalQuantity |-> out.plan.totalQuantity,
                   estimatedAvgPrice |-> out.plan.estimatedAvgPrice,
                   estimatedTotalCost |-> out.plan.estimatedTotalCost,
                   estimatedSlippage |-> out.plan.estimatedSlippage,
                   timestamp |-> t])

\* The plan returned or the Error thrown, but for the plan's timestamp.
generateRoutingPlan(o, vs, books, cfg) ==
    IF validateInputs(o, vs, books) # "ok" THEN Thrown(validateInputs(o, vs, books))
    ELSE LET eligibleVenues == filterVenues(vs, books, cfg)
         IN IF Len(eligibleVenues) = 0 THEN Thrown(ErrNoEligibleVenues)
            ELSE IF selectStrategy(cfg).kind # "run" THEN selectStrategy(cfg)
            ELSE buildPlan(o, cfg, executeBestPriceStrategy(o, eligibleVenues, books))

(************************* execution replay *********************************)
RECURSIVE executeLevelsSkipEmpty(_, _)
\* Mutant: the loop passes over the levels that hold no quantity.
executeLevelsSkipEmpty(levels, remainingQuantity) ==
    IF levels = <<>> \/ remainingQuantity <= 0 THEN <<>>
    ELSE LET level == Head(levels)
             quantityAtThisLevel == Min(remainingQuantity, level.quantity)
         IN IF level.quantity = 0 THEN executeLevelsSkipEmpty(Tail(levels), remainingQuantity)
            ELSE <<[price |-> level.price,
                    quantityTaken |-> quantityAtThisLevel,
                    quantityRemaining |-> level.quantity - quantityAtThisLevel,
                    percentageTaken |-> [num |-> quantityAtThisLevel * 100,
                                         den |-> level.quantity]]>>
                 \o executeLevelsSkipEmpty(Tail(levels),
                                           remainingQuantity - quantityAtThisLevel)

RECURSIVE executeLevels(_, _)
\* simulateExecution's loop: the levels touched, best first.  percentageTaken is the
\* fraction quantityTaken * 100 / level.quantity (0/0, NaN in the code, at an empty level).
executeLevels(levels, remainingQuantity) ==
    IF levels = <<>> \/ remainingQuantity <= 0 THEN <<>>
    ELSE LET level == Head(levels)
             quantityAtThisLevel == Min(remainingQuantity, level.quantity)
         IN <<[price |-> level.price,
               quantityTaken |-> quantityAtThisLevel,
               quantityRemaining |-> level.quantity - quantityAtThisLevel,
               percentageTaken |-> [num |-> quantityAtThisLevel * 100,
                                    den |-> level.quantity]]>>
            \o executeLevels(Tail(levels), remainingQuantity - quantityAtThisLevel)

\* Mutant: the average is taken over the quantity matched, not the quantity asked.
simulateExecutionOverMatched(orderBook, o, quantityToFill) ==
    LET executedLevels == executeLevels(sideLevels(orderBook, bookSide(o)), quantityToFill)
        totalCost ==
            SumOver(executedLevels,
                    [l \in {executedLevels[i] : i \in DOMAIN executedLevels} |->
                        l.quantityTaken * l.price])
        matched ==
            SumOver(executedLevels,
                    [l \in {executedLevels[i] : i \in DOMAIN executedLevels} |->
                        l.quantityTaken])
    IN [venueId |-> "",
        side |-> bookSide(o),
        totalQuantity |-> quantityToFill,
        levels |-> executedLevels,
        avgPrice |-> IF matched > 0
                     THEN [num |-> totalCost, den |-> matched]
                     ELSE [num |-> 0, den |-> 1]]

simulateExecution(orderBook, o, quantityToFill) ==
    LET executedLevels == executeLevels(sideLevels(orderBook, bookSide(o)), quantityToFill)
        totalCost ==
            SumOver(executedLevels,
                    [l \in {executedLevels[i] : i \in DOMAIN executedLevels} |->
                        l.quantityTaken * l.price])
    IN [venueId |-> "",
        side |-> bookSide(o),
        totalQuantity |-> quantityToFill,
        levels |-> executedLevels,
        avgPrice |-> IF Len(executedLevels) > 0
                     THEN [num |-> totalCost, den |-> quantityToFill]
                     ELSE [num |-> 0, den |-> 1]]

RECURSIVE setDetails(_, _)
\* routingPlan.decisions.forEach(d => executionDetails.set(d.venueId, detail)):
\* a later decision of the same venue replaces the earlier entry.
setDetails(details, map) ==
    IF details = <<>> THEN map
    ELSE setDetails(Tail(details),
                    [v \in DOMAIN map \cup {Head(details).venueId} |->
                        IF v = Head(details).venueId THEN Head(details) ELSE map[v]])

(*************************** MarketSimulator *********************************)
(* Math.random() is a draw u / DrawDen with u in a small set.  Inside the        *)
(* simulator a price is a whole number of PriceUnit-ths of a tick (0.01), a unit *)
(* fine enough for every product and quotient below to be exact; a level's price *)
(* is stored rounded to the tick, as the code rounds it to 2 decimals.           *)
DrawDen == 4
PriceDraws == {0, DrawDen - 1}      \* Math.random() = 0 and = (DrawDen - 1) / DrawDen
\* The draws of a level's randomFactor.  Quantities do not bear on prices, and one
\* value keeps the number of books small.
QuantityDraws == {DrawDen \div 2}
PriceUnit == 200 * DrawDen
NumLevels == 3                      \* levels per side (15 in generateOrderBook)
MaxUpdates == 2                     \* updateOrderBook calls in a run

DEFAULT_BASE_PRICE == 15000         \* 150.0, in ticks
volatility == 50                    \* 0.5, in ticks
baseQuantity == 1000

\* Math.round(x) for x = num / den, den > 0: the nearest integer, halves upwards.
Round(num, den) == (2 * num + den) \div (2 * den)

\* Math.exp(-i / 5), in thousandths, for the depths i = 0 .. 14.
depthFactor ==
    <<1000, 819, 670, 549, 449, 368, 301, 247, 202, 165, 135, 111, 91, 74, 61>>

\* generatePriceLevels(startPrice, side, levels): startPrice in units; priceDraw[i] and
\* quantityDraw[i] are the draws of the level at depth i - 1.
generatePriceLevels(startPrice, side, levels, priceDraw, quantityDraw) ==
    LET direction == IF side = "bid" THEN 0 - 1 ELSE 1
        tickSize == PriceUnit
        price(i) ==
            startPrice + direction * (((i - 1) * tickSize * (DrawDen + priceDraw[i])) \div DrawDen)
        \* baseQuantity * depthFactor * (0.5 + random) / 100, as the fraction num / den
        quantity(i) ==
            Round(baseQuantity * depthFactor[i] * (DrawDen + 2 * quantityDraw[i]),
                  1000 * 2 * DrawDen * 100) * 100
    IN [i \in 1..levels |->
            [price |-> Round(price(i), PriceUnit), quantity |-> quantity(i)]]

\* generateOrderBook(venue, symbol) of a simulator whose basePrice is base (in units).
generateOrderBook(venue, base, d) ==
    LET venueVariance == ((2 * d.variance - DrawDen) * volatility * PriceUnit) \div (2 * DrawDen)
        midPrice == base + venueVariance
        baseSpread == (PriceUnit * (DrawDen + 2 * d.spread)) \div DrawDen
        spread == (baseSpread * (100 + venue.latency)) \div 100
        bestBid == midPrice - spread \div 2
        bestAsk == midPrice + spread \div 2
    IN [venueId |-> venue.id,
        bids |-> generatePriceLevels(bestBid, "bid", NumLevels, d.bidPrice, d.bidQuantity),
        asks |-> generatePriceLevels(bestAsk, "ask", NumLevels, d.askPrice, d.askQuantity),
        spread |-> bestAsk - bestBid,
        midPrice |-> midPrice]

\* updateOrderBook(orderBook): the new basePrice of the simulator and the book returned.
updateOrderBook(orderBook, base, d) ==
    LET priceChange == ((2 * d.variance - DrawDen) * volatility * PriceUnit) \div (2 * DrawDen * 10)
        newMidPrice == base + priceChange
        spread == orderBook.spread
        bestBid == newMidPrice - spread \div 2
        bestAsk == newMidPrice + spread \div 2
    IN [basePrice |-> newMidPrice,
        book |-> [orderBook EXCEPT
                    !.bids = generatePriceLevels(bestBid, "bid", NumLevels,
                                                 d.bidPrice, d.bidQuantity),
                    !.asks = generatePriceLevels(bestAsk, "ask", NumLevels,
                                                 d.askPrice, d.askQuantity),
                    !.midPrice = newMidPrice]]

\* MarketSimulator.getTotalLiquidity(orderBook, side)
getTotalLiquidity(orderBook, side) ==
    SumOver(sideLevels(orderBook, side),
            [l \in {sideLevels(orderBook, side)[i] : i \in DOMAIN sideLevels(orderBook, side)}
                |-> l.quantity])

RECURSIVE vwapTakes(_, _)
\* The loop of calculateVWAP: the price and takeQty of each level it comes to; it
\* leaves the loop after the level that brings remaining to 0.
vwapTakes(levels, remaining) ==
    IF levels = <<>> THEN <<>>
    ELSE LET level == Head(levels)
             takeQty == Min(remaining, level.quantity)
         IN <<[price |-> level.price, takeQty |-> takeQty]>>
            \o (IF remaining - takeQty <= 0 THEN <<>>
                ELSE vwapTakes(Tail(levels), remaining - takeQty))

\* Mutant: the value is divided by the quantity asked for, as simulateExecution does.
calculateVWAPOverRequested(orderBook, side, quantity) ==
    LET takes == vwapTakes(sideLevels(orderBook, side), quantity)
        ts == {takes[i] : i \in DOMAIN takes}
        totalValue == SumOver(takes, [t \in ts |-> t.takeQty * t.price])
        totalQty == SumOver(takes, [t \in ts |-> t.takeQty])
    IN IF totalQty > 0 THEN [num |-> totalValue, den |-> quantity]
       ELSE [num |-> 0, den |-> 1]

\* MarketSimulator.calculateVWAP(orderBook, side, quantity), as the fraction num / den
calculateVWAP(orderBook, side, quantity) ==
    LET takes == vwapTakes(sideLevels(orderBook, side), quantity)
        ts == {takes[i] : i \in DOMAIN takes}
        totalValue == SumOver(takes, [t \in ts |-> t.takeQty * t.price])
        totalQty == SumOver(takes, [t \in ts |-> t.takeQty])
    IN IF totalQty > 0 THEN [num |-> totalValue, den |-> totalQty]
       ELSE [num |-> 0, den |-> 1]

(****************************** inputs **************************************)
VenueIds == {"V1", "V2"}
BidPrices == 1..MaxPrice
AskPrices == (MaxPrice + 1)..(2 * MaxPrice)
\* The prices of the side an order of side s consumes.
ConsumedPrices(s) == IF s = BID THEN AskPrices ELSE BidPrices

LevelsAt(prices) == [price : prices, quantity : 0..MaxLevelQty]
\* Every sequence of at most n levels, in any order of price: the simulator does not
\* keep a side sorted (see generatePriceLevels), and generateRoutingPlan takes any map.
SidesUpTo(n, prices) == UNION {[1..k -> LevelsAt(prices)] : k \in 0..n}

\* A book whose consumed side is c; the other side holds one level that does not cross it.
BookWith(s, c) ==
    IF s = BID THEN [bids |-> <<[price |-> MaxPrice, quantity |-> 1]>>, asks |-> c]
    ELSE [bids |-> c, asks |-> <<[price |-> MaxPrice + 1, quantity |-> 1]>>]

Venue(id, active) == [id |-> id, active |-> active]

Orders(quantities) ==
    {[side |-> s, quantity |-> q, price |-> p] :
        s \in OrderSide, q \in quantities, p \in {0} \cup BidPrices \cup AskPrices}

\* Best-price configurations: the default one and its variations of the post-processing.
BestPriceConfigs ==
    {[createDefaultConfig EXCEPT !.maxVenues = m, !.minQuantityPerVenue = q,
                                 !.allowPartialFills = a] :
        m \in {1, 2, createDefaultConfig.maxVenues}, q \in {0, MaxMinQty}, a \in BOOLEAN}
StrategyConfigs == {[createDefaultConfig EXCEPT !.strategy = st] : st \in RoutingStrategy}

\* Venue lists: empty, one venue, two venues, each venue active or not.
VenueLists ==
    {<<>>} \cup {<<Venue("V1", a)>> : a \in BOOLEAN}
           \cup {<<Venue("V1", a), Venue("V2", b)>> : a, b \in BOOLEAN}

\* One venue whose consumed side is a ladder of n levels of quantity 1, best first.
Ladder(s, n) ==
    [i \in 1..n |-> [price |-> IF s = BID THEN MaxPrice + i ELSE n + 1 - i, quantity |-> 1]]
LadderBook(s, n) ==
    IF s = BID THEN [bids |-> <<[price |-> MaxPrice, quantity |-> 1]>>, asks |-> Ladder(s, n)]
    ELSE [bids |-> Ladder(s, n), asks |-> <<[price |-> n + 1, quantity |-> 1]>>]

(*************************** the caller *************************************)
NoBook == [venueId |-> "", bids |-> <<>>, asks |-> <<>>, spread |-> 0, midPrice |-> 0]
NoVwap == [kind |-> "none"]
NoSnapshot == [kind |-> "none"]
NoOrder == [status |-> "null"]
NoPlan == [kind |-> "null"]
NoToggle == [venueId |-> "", active |-> FALSE, book |-> NoBook]
NoView == [kind |-> "none"]
NoSlicing == [kind |-> "none"]
\* The parts of the state a specification does not use.
SimIdle == basePrice = 0 /\ simBook = NoBook /\ updates = 0
WalkIdle == vwap = NoVwap
RetryIdle == now = 0 /\ retry = NoOutcome
StoreIdle ==
    /\ mapHeap = <<>> /\ bookHeap = <<>> /\ storeBooks = 0 /\ snapshot = NoSnapshot
    /\ currentOrder = NoOrder /\ isExecuting = FALSE /\ isPaused = FALSE
    /\ routingPlan = NoPlan /\ currentStepIndex = 0 - 1 /\ executionSteps = <<>>
    /\ animationTimerId = 0 /\ timers = {} /\ shown = <<>>
    /\ calls = 0 /\ lastToggle = NoToggle /\ aggregated = NoView
    /\ slicing = NoSlicing

\* Two active venues with books: V1 has up to two levels to consume, V2 up to one.
TwoVenues(o, c1, c2) ==
    /\ order = o
    /\ venues = <<Venue("V1", TRUE), Venue("V2", TRUE)>>
    /\ orderBooks = [v \in VenueIds |-> BookWith(o.side, IF v = "V1" THEN c1 ELSE c2)]

\* At most one level, of quantity 1.
UnitSides(prices) == {<<>>} \cup {<<[price |-> p, quantity |-> 1]>> : p \in prices}

\* Market orders under the default configuration.
InitMarket ==
    \E o \in Orders(1..MaxOrderQty) :
        \E c1 \in SidesUpTo(2, ConsumedPrices(o.side)),
           c2 \in SidesUpTo(1, ConsumedPrices(o.side)) :
            /\ o.price = 0
            /\ TwoVenues(o, c1, c2)
            /\ config = createDefaultConfig

\* Market orders under every other best-price configuration; V2 offers at most one
\* level of quantity 1.
InitConfig ==
    \E o \in Orders(1..MaxOrderQty), cfg \in BestPriceConfigs \ {createDefaultConfig} :
        \E c1 \in SidesUpTo(2, ConsumedPrices(o.side)),
           c2 \in UnitSides(ConsumedPrices(o.side)) :
            /\ o.price = 0
            /\ TwoVenues(o, c1, c2)
            /\ config = cfg

\* Limit orders, at every price of the consumed side, under the default configuration;
\* V2 offers at most one level of quantity 1.
InitLimit ==
    \E o \in Orders(1..MaxOrderQty) :
        \E c1 \in SidesUpTo(2, ConsumedPrices(o.side)),
           c2 \in UnitSides(ConsumedPrices(o.side)) :
            /\ o.price \in ConsumedPrices(o.side)
            /\ TwoVenues(o, c1, c2)
            /\ config = createDefaultConfig

\* Venue lists with inactive venues, maps that lack books, orders of quantity 0, and
\* every strategy; a book that is there offers one level of quantity 1.
InitValidation ==
    \E o \in Orders(0..1), vs \in VenueLists, present \in SUBSET VenueIds,
       cfg \in StrategyConfigs :
        \E p \in ConsumedPrices(o.side) :
            /\ o.price = 0
            /\ order = o
            /\ venues = vs
            /\ orderBooks = [v \in present |->
                                BookWith(o.side, <<[price |-> p, quantity |-> 1]>>)]
            /\ config = cfg

\* Books deeper than the default maxVenues, under the default configuration.
InitDeep ==
    \E s \in OrderSide, extra \in 0..2 :
        /\ order = [side |-> s, quantity |-> createDefaultConfig.maxVenues + extra,
                    price |-> 0]
        /\ venues = <<Venue("V1", TRUE)>>
        /\ orderBooks = [v \in {"V1"} |->
                            LadderBook(s, createDefaultConfig.maxVenues + 1)]
        /\ config = createDefaultConfig

\* The worked example: a BID order for 5000 against one venue whose asks are
\* (100.01, 1000), (100.02, 1500), (100.03, 3000), and the same for an ASK order
\* against bids (100.03, 1000), (100.02, 1500), (100.01, 3000).
ScenarioLevels(s) ==
    <<[price |-> IF s = BID THEN 10001 ELSE 10003, quantity |-> 1000],
      [price |-> 10002, quantity |-> 1500],
      [price |-> IF s = BID THEN 10003 ELSE 10001, quantity |-> 3000]>>
InitScenario ==
    \E s \in OrderSide :
        /\ order = [side |-> s, quantity |-> 5000, price |-> 0]
        /\ venues = <<Venue("V1", TRUE)>>
        /\ orderBooks =
              [v \in {"V1"} |->
                  IF s = BID
                  THEN [bids |-> <<[price |-> 10000, quantity |-> 1000]>>,
                        asks |-> ScenarioLevels(s)]
                  ELSE [bids |-> ScenarioLevels(s),
                        asks |-> <<[price |-> 10004, quantity |-> 1000]>>]]
        /\ config = createDefaultConfig

Init ==
    /\ InitMarket \/ InitConfig \/ InitLimit \/ InitValidation \/ InitDeep \/ InitScenario
    /\ outcome = NoOutcome
    /\ replays = <<>>
    /\ executionDetails = <<>>
    /\ pc = "input"
    /\ SimIdle
    /\ WalkIdle
    /\ RetryIdle
    /\ StoreIdle

\* const routingPlan = SOREngine.generateRoutingPlan(order, venues, orderBooks, config)
GenerateRoutingPlan ==
    /\ pc = "input"
    /\ outcome' = stamped(generateRoutingPlan(order, venues, orderBooks, config), now)
    /\ pc' = "routed"
    /\ UNCHANGED <<order, venues, orderBooks, config, replays, executionDetails,
                   simVars, walkVars, retryVars, storeVars>>

\* The replay of each decision against the book of its venue, on the same books:
\* detail = simulateExecution(orderBook, order, decision.quantity);
\* detail.venueId = decision.venueId; executionDetails.set(decision.venueId, detail)
replayDecisions(decisions, books, o) ==
    [i \in DOMAIN decisions |->
        [simulateExecution(books[decisions[i].venueId], o, decisions[i].quantity)
            EXCEPT !.venueId = decisions[i].venueId]]

ReplayDecisions ==
    /\ pc = "routed"
    /\ outcome.kind = "plan"
    /\ replays' = replayDecisions(outcome.plan.decisions, orderBooks, order)
    /\ executionDetails' = setDetails(replays', <<>>)
    /\ pc' = "replayed"
    /\ UNCHANGED <<order, venues, orderBooks, config, outcome, simVars, walkVars, retryVars, storeVars>>

Next == GenerateRoutingPlan \/ ReplayDecisions

Spec == Init /\ [][Next]_vars

(************************ the simulator's caller ****************************)
\* The venues of the registry, by latency.
SimVenues == {[id |-> "NYSE", latency |-> 1], [id |-> "BATS", latency |-> 2],
              [id |-> "IEX", latency |-> 3]}
\* The draws of one generateOrderBook or updateOrderBook call.
BookDraws ==
    [variance : PriceDraws, spread : PriceDraws,
     bidPrice : [1..NumLevels -> PriceDraws], askPrice : [1..NumLevels -> PriceDraws],
     bidQuantity : [1..NumLevels -> QuantityDraws],
     askQuantity : [1..NumLevels -> QuantityDraws]]

\* new MarketSimulator(DEFAULT_BASE_PRICE, 0.5); no book generated yet.
InitSim ==
    /\ basePrice = DEFAULT_BASE_PRICE * PriceUnit
    /\ simBook = NoBook
    /\ updates = 0
    /\ pc = "sim"
    /\ order = [side |-> BID, quantity |-> 0, price |-> 0]
    /\ venues = <<>>
    /\ orderBooks = <<>>
    /\ config = createDefaultConfig
    /\ outcome = NoOutcome
    /\ replays = <<>>
    /\ executionDetails = <<>>
    /\ WalkIdle
    /\ RetryIdle
    /\ StoreIdle

\* simulator.generateOrderBook(venue, symbol)
GenerateOrderBook ==
    /\ pc = "sim"
    /\ \E venue \in SimVenues, d \in BookDraws :
          simBook' = generateOrderBook(venue, basePrice, d)
    /\ UNCHANGED <<order, venues, orderBooks, config, outcome, replays, executionDetails,
                   pc, basePrice, updates, walkVars, retryVars, storeVars>>

\* simulator.updateOrderBook(orderBook), on the book returned last
UpdateOrderBook ==
    /\ pc = "sim"
    /\ simBook # NoBook
    /\ updates < MaxUpdates
    /\ \E d \in BookDraws :
          LET r == updateOrderBook(simBook, basePrice, d)
          IN /\ basePrice' = r.basePrice
             /\ simBook' = r.book
    /\ updates' = updates + 1
    /\ UNCHANGED <<order, venues, orderBooks, config, outcome, replays, executionDetails, pc,
                   walkVars, retryVars, storeVars>>

NextSim == GenerateOrderBook \/ UpdateOrderBook

SpecSim == InitSim /\ [][NextSim]_vars

(************************ the caller that retries ****************************)
InitRetry ==
    /\ InitLimit \/ InitValidation \/ InitDeep
    /\ outcome = NoOutcome
    /\ replays = <<>>
    /\ executionDetails = <<>>
    /\ pc = "input"
    /\ SimIdle
    /\ WalkIdle
    /\ RetryIdle
    /\ StoreIdle

\* A second call, with the order, venues, books and configuration of the first.
RetryRoutingPlan ==
    /\ pc = "routed"
    /\ retry' = stamped(generateRoutingPlan(order, venues, orderBooks, config), now)
    /\ pc' = "retried"
    /\ UNCHANGED <<order, venues, orderBooks, config, outcome, replays, executionDetails,
                   simVars, walkVars, now, storeVars>>

\* Time passes between the calls.
ClockTick ==
    /\ pc \in {"input", "routed"}
    /\ now < MaxNow
    /\ now' = now + 1
    /\ UNCHANGED <<order, venues, orderBooks, config, outcome, replays, executionDetails,
                   pc, simVars, walkVars, retry, storeVars>>

NextRetry == GenerateRoutingPlan \/ RetryRoutingPlan \/ ClockTick

SpecRetry == InitRetry /\ [][NextRetry]_vars

(********************** the callers of the book walks ************************)
\* One book, one side to consume, one quantity (0 and more than the side holds
\* included).
InitWalk ==
    /\ \E s \in OrderSide, q \in 0..MaxOrderQty :
          \E c \in SidesUpTo(2, ConsumedPrices(s)) :
              /\ order = [side |-> s, quantity |-> q, price |-> 0]
              /\ orderBooks = [v \in {"V1"} |-> BookWith(s, c)]
    /\ venues = <<Venue("V1", TRUE)>>
    /\ config = createDefaultConfig
    /\ outcome = NoOutcome
    /\ replays = <<>>
    /\ executionDetails = <<>>
    /\ pc = "walk"
    /\ SimIdle
    /\ WalkIdle
    /\ RetryIdle
    /\ StoreIdle

\* MarketSimulator.calculateVWAP(orderBook, bookSide, quantity)
CalculateVWAP ==
    /\ pc = "walk"
    /\ vwap = NoVwap
    /\ vwap' = [kind |-> "value",
                value |-> calculateVWAP(orderBooks["V1"], bookSide(order), order.quantity),
                takes |-> vwapTakes(sideLevels(orderBooks["V1"], bookSide(order)),
                                    order.quantity)]
    /\ UNCHANGED <<order, venues, orderBooks, config, outcome, replays, executionDetails,
                   pc, simVars, retryVars, storeVars>>

\* simulateExecution(orderBook, order, quantity)
SimulateExecution ==
    /\ pc = "walk"
    /\ replays = <<>>
    /\ replays' = <<simulateExecution(orderBooks["V1"], order, order.quantity)>>
    /\ UNCHANGED <<order, venues, orderBooks, config, outcome, executionDetails, pc,
                   simVars, walkVars, retryVars, storeVars>>

NextWalk == CalculateVWAP \/ SimulateExecution

SpecWalk == InitWalk /\ [][NextWalk]_vars

(******************************* the store **********************************)
(* The zustand store of marketStore.ts.  The orderBooks field holds a          *)
(* reference to a Map object, and a Map holds references to OrderBook objects:  *)
(* mapHeap and bookHeap give the objects that the store or a reader can still   *)
(* reach.  A Map is the sequence of its entries, in insertion order.            *)
MaxCalls == 5                        \* calls of the store's handlers by the user or the refresh clock

\* Two of the DEFAULT_VENUES, as the store holds them at start; takerFee in basis
\* points (0.0030 is 30).
StoreVenues ==
    <<[id |-> "NYSE", latency |-> 1, takerFee |-> 30, active |-> TRUE],
      [id |-> "BATS", latency |-> 2, takerFee |-> 30, active |-> TRUE]>>
\* The draws of one handler.  The claims about the store do not bear on prices,
\* and one draw keeps the number of books small.
StoreDraws ==
    {[variance |-> v, spread |-> 0,
      bidPrice |-> [i \in 1..NumLevels |-> 0], askPrice |-> [i \in 1..NumLevels |-> 0],
      bidQuantity |-> [i \in 1..NumLevels |-> DrawDen \div 2],
      askQuantity |-> [i \in 1..NumLevels |-> DrawDen \div 2]] : v \in {0}}
\* The orders the control panel submits: market orders of a positive quantity.
StoreOrders ==
    {[side |-> BID, quantity |-> 2500, price |-> 0],
     [side |-> ASK, quantity |-> 1000, price |-> 0]}
\* The references an object can get: more than the objects alive at once.
MapRefs == 1..3
BookRefs == 1..(3 * Len(StoreVenues))

\* Map.prototype.has, get, set and delete, on the entries of a Map.
mapHas(entries, id) == \E i \in DOMAIN entries : entries[i].venueId = id
mapGet(entries, id) ==
    entries[CHOOSE i \in DOMAIN entries : entries[i].venueId = id].book
mapSet(entries, id, b) ==
    IF mapHas(entries, id)
    THEN [i \in DOMAIN entries |->
            IF entries[i].venueId = id THEN [venueId |-> id, book |-> b] ELSE entries[i]]
    ELSE Append(entries, [venueId |-> id, book |-> b])
mapDelete(entries, id) ==
    Filter(entries, {e \in {entries[i] : i \in DOMAIN entries} : e.venueId # id})

RECURSIVE Ascending(_)
Ascending(S) ==
    IF S = {} THEN <<>>
    ELSE LET m == CHOOSE x \in S : \A y \in S : x <= y
         IN <<m>> \o Ascending(S \ {m})
\* The references of n objects created now: the first n that no object alive has.
FreshRefs(refs, used, n) == SubSeq(Ascending(refs \ used), 1, n)

\* The heap after `new OrderBook` for each of the books, at the references refs.
withBooks(h, refs, books) ==
    [h EXCEPT !.books =
        [r \in DOMAIN h.books \cup {refs[i] : i \in DOMAIN refs} |->
            IF \E i \in DOMAIN refs : refs[i] = r
            THEN books[CHOOSE i \in DOMAIN refs : refs[i] = r]
            ELSE h.books[r]]]

\* A store that writes the entries into the Map it already holds.
installMapInPlace(h, entries) ==
    [h EXCEPT !.maps = [r \in DOMAIN h.maps |-> IF r = h.current THEN entries ELSE h.maps[r]]]

\* const newOrderBooks = new Map(...); ...; set({ orderBooks: newOrderBooks }):
\* the entries go into a Map created now, and the store points to it.
installMap(h, entries) ==
    LET r == FreshRefs(MapRefs, DOMAIN h.maps, 1)[1]
    IN [h EXCEPT !.maps = [x \in DOMAIN h.maps \cup {r} |->
                              IF x = r THEN entries ELSE h.maps[x]],
                 !.current = r]

\* The objects still reachable from the store or from the map a reader holds.
collect(h, keep) ==
    LET liveMaps == (keep \cup {h.current}) \cap DOMAIN h.maps
        liveBooks == UNION {{h.maps[r][i].book : i \in DOMAIN h.maps[r]} : r \in liveMaps}
    IN [maps |-> [r \in liveMaps |-> h.maps[r]],
        books |-> [r \in liveBooks |-> h.books[r]],
        current |-> h.current]

\* The entries of the Map at a reference, each with the OrderBook it points to.
entriesAt(h, ref) ==
    [i \in DOMAIN h.maps[ref] |->
        [venueId |-> h.maps[ref][i].venueId, book |-> h.books[h.maps[ref][i].book]]]
\* The same Map as generateRoutingPlan reads it: venueId -> OrderBook.
booksAt(h, ref) ==
    [v \in {h.maps[ref][i].venueId : i \in DOMAIN h.maps[ref]} |->
        h.books[mapGet(h.maps[ref], v)]]

\* initializeMarket: a new Map with a generated book for each active venue.
initializeMarket(h, vs, base, d) ==
    LET active == Filter(vs, {v \in {vs[i] : i \in DOMAIN vs} : v.active})
        refs == FreshRefs(BookRefs, DOMAIN h.books, Len(active))
        books == [i \in DOMAIN active |-> generateOrderBook(active[i], base, d)]
    IN installMap(withBooks(h, refs, books),
                  [i \in DOMAIN active |-> [venueId |-> active[i].id, book |-> refs[i]]])

RECURSIVE updateEach(_, _, _)
\* orderBooks.forEach((orderBook, venueId) => ... simulator.updateOrderBook(orderBook)):
\* each call moves the simulator's basePrice, which the next call starts from.
updateEach(books, base, d) ==
    IF books = <<>> THEN [basePrice |-> base, books |-> <<>>]
    ELSE LET r == updateOrderBook(Head(books), base, d)
             rest == updateEach(Tail(books), r.basePrice, d)
         IN [basePrice |-> rest.basePrice, books |-> <<r.book>> \o rest.books]

\* updateOrderBooks: a new Map with an updated copy of each book of the old one.
updateOrderBooks(h, base, d) ==
    LET old == h.maps[h.current]
        r == updateEach([i \in DOMAIN old |-> h.books[old[i].book]], base, d)
        refs == FreshRefs(BookRefs, DOMAIN h.books, Len(old))
    IN [basePrice |-> r.basePrice,
        heap |-> installMap(withBooks(h, refs, r.books),
                            [i \in DOMAIN old |->
                                [venueId |-> old[i].venueId, book |-> refs[i]]])]

\* A toggleVenue that leaves the book of a deactivated venue in the Map.
toggleVenueKeepingBook(h, vs, venueId, base, d) ==
    IF ~ \E i \in DOMAIN vs : vs[i].id = venueId
    THEN [heap |-> h, venues |-> vs, book |-> NoBook]
    ELSE LET venue == vs[CHOOSE i \in DOMAIN vs : vs[i].id = venueId]
             newActive == ~ venue.active
             ref == FreshRefs(BookRefs, DOMAIN h.books, 1)[1]
             book == generateOrderBook(venue, base, d)
             copy == h.maps[h.current]
         IN [heap |-> IF newActive
                      THEN installMap(withBooks(h, <<ref>>, <<book>>),
                                      mapSet(copy, venueId, ref))
                      ELSE installMap(h, copy),
             venues |-> [i \in DOMAIN vs |->
                            IF vs[i].id = venueId THEN [vs[i] EXCEPT !.active = newActive]
                            ELSE vs[i]],
             book |-> IF newActive THEN book ELSE NoBook]

\* toggleVenue(venueId): a copy of the Map, with a generated book set for a venue
\* turned active and the entry deleted for a venue turned inactive; the venue's flag.
toggleVenue(h, vs, venueId, base, d) ==
    IF ~ \E i \in DOMAIN vs : vs[i].id = venueId
    THEN [heap |-> h, venues |-> vs, book |-> NoBook]
    ELSE LET venue == vs[CHOOSE i \in DOMAIN vs : vs[i].id = venueId]
             newActive == ~ venue.active
             ref == FreshRefs(BookRefs, DOMAIN h.books, 1)[1]
             book == generateOrderBook(venue, base, d)
             copy == h.maps[h.current]
         IN [heap |-> IF newActive
                      THEN installMap(withBooks(h, <<ref>>, <<book>>),
                                      mapSet(copy, venueId, ref))
                      ELSE installMap(h, mapDelete(copy, venueId)),
             venues |-> [i \in DOMAIN vs |->
                            IF vs[i].id = venueId THEN [vs[i] EXCEPT !.active = newActive]
                            ELSE vs[i]],
             book |-> IF newActive THEN book ELSE NoBook]

\* executionSteps = routingPlan.decisions.map((decision, idx) => ({ ... }))
executionStepsOf(decisions) ==
    [idx \in DOMAIN decisions |->
        [stepNumber |-> idx - 1,
         venueId |-> decisions[idx].venueId,
         action |-> "FILL",
         quantity |-> decisions[idx].quantity,
         price |-> decisions[idx].expectedPrice]]

\* A timer callback that moves two steps at a time.
timerCallbackSkipping(stepIndex, steps) ==
    LET nextIndex == stepIndex + 2
    IN [stop |-> nextIndex >= Len(steps), currentStepIndex |-> nextIndex]

\* The callback of setInterval: nextIndex = currentStepIndex + 1; past the last
\* step it stops the execution, else it shows the step.
timerCallback(stepIndex, steps) ==
    LET nextIndex == stepIndex + 1
    IN [stop |-> nextIndex >= Len(steps), currentStepIndex |-> nextIndex]

\* The fields of the store that executeOrder, the timer and stopExecution set, and the
\* interval timers of the window that are not cleared.
PlayState ==
    [currentOrder |-> currentOrder, routingPlan |-> routingPlan,
     executionSteps |-> executionSteps, executionDetails |-> executionDetails,
     currentStepIndex |-> currentStepIndex, isExecuting |-> isExecuting,
     isPaused |-> isPaused, animationTimerId |-> animationTimerId, timers |-> timers]
SetPlayState(st) ==
    /\ currentOrder' = st.currentOrder
    /\ routingPlan' = st.routingPlan
    /\ executionSteps' = st.executionSteps
    /\ executionDetails' = st.executionDetails
    /\ currentStepIndex' = st.currentStepIndex
    /\ isExecuting' = st.isExecuting
    /\ isPaused' = st.isPaused
    /\ animationTimerId' = st.animationTimerId
    /\ timers' = st.timers

withStatus(o, status) ==
    [side |-> o.side, quantity |-> o.quantity, price |-> o.price, status |-> status]

\* executeOrder after generateRoutingPlan returned: the execution details and steps,
\* the SUBMITTED order, the state of the playback and the interval timer timerId.
submitOrder(st, o, out, details, timerId) ==
    [st EXCEPT !.currentOrder = withStatus(o, "SUBMITTED"),
               !.routingPlan = out,
               !.executionSteps = executionStepsOf(out.plan.decisions),
               !.executionDetails = setDetails(details, <<>>),
               !.currentStepIndex = 0 - 1,
               !.isExecuting = TRUE,
               !.isPaused = TRUE,
               !.timers = st.timers \cup {timerId},
               !.animationTimerId = timerId]

\* A catch that also drops the plan and the steps of the order before.
rejectOrderClearingPlan(st, o) ==
    [st EXCEPT !.currentOrder = withStatus(o, "REJECTED"),
               !.isExecuting = FALSE,
               !.routingPlan = NoPlan,
               !.executionSteps = <<>>,
               !.currentStepIndex = 0 - 1]

\* executeOrder's catch: the REJECTED order, isExecuting false.
rejectOrder(st, o) ==
    [st EXCEPT !.currentOrder = withStatus(o, "REJECTED"),
               !.isExecuting = FALSE]

\* A stopExecution that resets the store but leaves the interval running.
stopExecutionKeepingTimer(st) ==
    [st EXCEPT !.currentOrder = IF st.currentOrder = NoOrder THEN NoOrder
                                ELSE [st.currentOrder EXCEPT !.status = "FILLED"],
               !.isExecuting = FALSE,
               !.animationTimerId = 0,
               !.currentStepIndex = 0 - 1]

\* stopExecution(): clearInterval(animationTimerId), the order FILLED if there is
\* one, and the playback state reset.
stopExecution(st) ==
    [st EXCEPT !.timers = st.timers \ {st.animationTimerId},
               !.currentOrder = IF st.currentOrder = NoOrder THEN NoOrder
                                ELSE [st.currentOrder EXCEPT !.status = "FILLED"],
               !.isExecuting = FALSE,
               !.animationTimerId = 0,
               !.currentStepIndex = 0 - 1]

Heap == [maps |-> mapHeap, books |-> bookHeap, current |-> storeBooks]
SnapshotRefs == IF snapshot.kind = "taken" THEN {snapshot.ref} ELSE {}
\* The store's new Map and the objects still reachable.
SetHeap(h) ==
    LET g == collect(h, SnapshotRefs)
    IN /\ mapHeap' = g.maps
       /\ bookHeap' = g.books
       /\ storeBooks' = g.current

routingVars == <<order, orderBooks, config, outcome, replays, executionDetails>>
otherVars == <<simBook, walkVars, retryVars, viewVars>>

\* create<MarketState>(...): the initial state of the store.
InitStore ==
    /\ venues = StoreVenues
    /\ mapHeap = [r \in {1} |-> <<>>]
    /\ bookHeap = <<>>
    /\ storeBooks = 1
    /\ snapshot = NoSnapshot
    /\ basePrice = DEFAULT_BASE_PRICE * PriceUnit
    /\ updates = 0
    /\ currentOrder = NoOrder
    /\ isExecuting = FALSE
    /\ isPaused = FALSE
    /\ routingPlan = NoPlan
    /\ currentStepIndex = 0 - 1
    /\ executionSteps = <<>>
    /\ animationTimerId = 0
    /\ timers = {}
    /\ shown = <<>>
    /\ calls = 0
    /\ lastToggle = NoToggle
    /\ executionDetails = <<>>
    /\ order = [side |-> BID, quantity |-> 0, price |-> 0]
    /\ orderBooks = <<>>
    /\ config = createDefaultConfig
    /\ outcome = NoOutcome
    /\ replays = <<>>
    /\ pc = "store"
    /\ simBook = NoBook
    /\ aggregated = NoView
    /\ slicing = NoSlicing
    /\ WalkIdle
    /\ RetryIdle

\* initializeMarket(), on mount and on Refresh
InitializeMarket ==
    /\ calls < MaxCalls
    /\ \E d \in StoreDraws : SetHeap(initializeMarket(Heap, venues, basePrice, d))
    /\ calls' = calls + 1
    /\ pc' = "store"
    /\ UNCHANGED <<venues, snapshot, basePrice, updates, playVars, lastToggle,
                   routingVars, otherVars>>

\* updateOrderBooks(), every 2 s while the store is not paused
UpdateOrderBooks ==
    /\ ~ isPaused
    /\ calls < MaxCalls
    /\ \E d \in StoreDraws :
          LET r == updateOrderBooks(Heap, basePrice, d)
          IN /\ SetHeap(r.heap)
             /\ basePrice' = r.basePrice
    /\ calls' = calls + 1
    /\ pc' = "store"
    /\ UNCHANGED <<venues, snapshot, updates, playVars, lastToggle, routingVars, otherVars>>

\* toggleVenue(venueId), from a venue's switch
ToggleVenue ==
    /\ calls < MaxCalls
    /\ \E i \in DOMAIN venues, d \in StoreDraws :
          LET r == toggleVenue(Heap, venues, venues[i].id, basePrice, d)
          IN /\ SetHeap(r.heap)
             /\ venues' = r.venues
             /\ lastToggle' = [venueId |-> venues[i].id, active |-> r.venues[i].active,
                               book |-> r.book]
    /\ calls' = calls + 1
    /\ pc' = "toggleVenue"
    /\ UNCHANGED <<snapshot, basePrice, updates, playVars, routingVars, otherVars>>

\* A reader (a component, a closure) gets the store's orderBooks.
ReadOrderBooks ==
    /\ snapshot = NoSnapshot
    /\ snapshot' = [kind |-> "taken", ref |-> storeBooks, seen |-> entriesAt(Heap, storeBooks)]
    /\ UNCHANGED <<venues, mapHeap, bookHeap, storeBooks, basePrice, updates, playVars,
                   calls, lastToggle, routingVars, pc, otherVars>>

\* executeOrder(order): the plan, the replay and the steps, then the timer; a throw
\* of generateRoutingPlan rejects the order.
ExecuteOrder ==
    /\ calls < MaxCalls
    /\ calls' = calls + 1
    /\ \E o \in StoreOrders :
          LET books == booksAt(Heap, storeBooks)
              out == stamped(generateRoutingPlan(o, venues, books, createDefaultConfig), now)
          IN /\ order' = o
             /\ orderBooks' = books
             /\ outcome' = out
             /\ IF out.kind = "plan"
                THEN /\ replays' = replayDecisions(out.plan.decisions, books, o)
                     /\ SetPlayState(submitOrder(PlayState, o, out, replays', calls'))
                     /\ shown' = <<>>
                ELSE /\ SetPlayState(rejectOrder(PlayState, o))
                     /\ UNCHANGED <<replays, shown>>
    /\ pc' = "executeOrder"
    /\ UNCHANGED <<venues, heapVars, basePrice, updates, lastToggle, config,
                   otherVars>>

\* One firing of an interval timer that was not cleared; past the last step,
\* stopExecution().
TimerTick ==
    /\ \E id \in timers :
          LET r == timerCallback(currentStepIndex, executionSteps)
          IN IF r.stop
             THEN /\ SetPlayState(stopExecution(PlayState))
                  /\ shown' = <<>>
             ELSE /\ SetPlayState([PlayState EXCEPT !.currentStepIndex = r.currentStepIndex])
                  /\ shown' = Append(shown, r.currentStepIndex)
    /\ pc' = "store"
    /\ UNCHANGED <<venues, heapVars, basePrice, updates, calls, lastToggle,
                   order, orderBooks, config, outcome, replays, otherVars>>

\* togglePause(), from the play / pause button
TogglePause ==
    /\ calls < MaxCalls
    /\ calls' = calls + 1
    /\ isPaused' = ~ isPaused
    /\ pc' = "store"
    /\ UNCHANGED <<venues, heapVars, basePrice, updates, currentOrder, isExecuting,
                   routingPlan, currentStepIndex, executionSteps, animationTimerId, timers,
                   shown, lastToggle, routingVars, otherVars>>

NextStore ==
    \/ InitializeMarket
    \/ UpdateOrderBooks
    \/ ToggleVenue
    \/ ReadOrderBooks
    \/ ExecuteOrder
    \/ TimerTick
    \/ TogglePause

SpecStore == InitStore /\ [][NextStore]_vars

\* setInterval(..., 1000): an interval that is not cleared goes on firing.
SpecStoreLive == SpecStore /\ WF_vars(TimerTick)

(************************** the aggregated view ******************************)
RECURSIVE Descending(_)
\* Array.from(priceMap.values()).sort((a, b) => b.price - a.price), on the prices
Descending(S) ==
    IF S = {} THEN <<>>
    ELSE LET p == CHOOSE x \in S : \A y \in S : y <= x
         IN <<p>> \o Descending(S \ {p})

RECURSIVE quantityAt(_, _)
\* The sum of the quantities of the levels of a side at price p: totalBid += ...
quantityAt(levels, p) ==
    IF levels = <<>> THEN 0
    ELSE (IF Head(levels).price = p THEN Head(levels).quantity ELSE 0)
         + quantityAt(Tail(levels), p)

RECURSIVE sumOverSet(_, _)
sumOverSet(S, f) ==
    IF S = {} THEN 0
    ELSE LET x == CHOOSE y \in S : TRUE IN f[x] + sumOverSet(S \ {x}, f)

\* aggregatedLevels: one entry per price of a book of an active venue, with the bid
\* and ask quantities every such book holds at that price, by descending price.
aggregatedLevels(vs, books) ==
    LET activeIds ==
            {v \in DOMAIN books :
                /\ \E i \in DOMAIN vs : vs[i].id = v
                /\ vs[CHOOSE i \in DOMAIN vs :
                        vs[i].id = v /\ \A j \in 1..(i - 1) : vs[j].id # v].active}
        prices ==
            UNION {{books[v].bids[i].price : i \in DOMAIN books[v].bids}
                   \cup {books[v].asks[i].price : i \in DOMAIN books[v].asks} :
                   v \in activeIds}
        sorted == Descending(prices)
    IN [i \in DOMAIN sorted |->
           [price |-> sorted[i],
            totalBid |-> sumOverSet(activeIds,
                                    [v \in activeIds |-> quantityAt(books[v].bids, sorted[i])]),
            totalAsk |-> sumOverSet(activeIds,
                                    [v \in activeIds |-> quantityAt(books[v].asks, sorted[i])])]]

RECURSIVE findPrice(_, _)
\* aggregatedLevels.find(level => level[total] > 0)?.price || 0
findPrice(levels, total) ==
    IF levels = <<>> THEN 0
    ELSE IF Head(levels)[total] > 0 THEN Head(levels).price
    ELSE findPrice(Tail(levels), total)

\* Levels of one entry at most; a map may hold a book for an inactive venue.
ViewSides(prices) == SidesUpTo(1, prices)

\* The props of the component: the venues and a map of books.
InitView ==
    /\ \E a1 \in BOOLEAN, a2 \in BOOLEAN :
          venues = <<Venue("V1", a1), Venue("V2", a2)>>
    /\ \E b1 \in ViewSides(BidPrices), s1 \in ViewSides(AskPrices),
          b2 \in ViewSides(BidPrices), s2 \in ViewSides(AskPrices) :
          orderBooks = [v \in VenueIds |->
                           IF v = "V1" THEN [bids |-> b1, asks |-> s1]
                           ELSE [bids |-> b2, asks |-> s2]]
    /\ order = [side |-> BID, quantity |-> 0, price |-> 0]
    /\ config = createDefaultConfig
    /\ outcome = NoOutcome
    /\ replays = <<>>
    /\ executionDetails = <<>>
    /\ pc = "view"
    /\ SimIdle
    /\ WalkIdle
    /\ RetryIdle
    /\ StoreIdle

\* The component's render: aggregatedLevels, then bestBid and bestAsk.
Aggregate ==
    /\ pc = "view"
    /\ aggregated = NoView
    /\ LET levels == aggregatedLevels(venues, orderBooks)
       IN aggregated' = [kind |-> "view",
                         levels |-> levels,
                         bestBid |-> findPrice(levels, "totalBid"),
                         bestAsk |-> findPrice(levels, "totalAsk")]
    /\ UNCHANGED <<order, venues, orderBooks, config, outcome, replays, executionDetails,
                   pc, simVars, walkVars, retryVars, heapVars, playVars, calls, lastToggle,
                   slicing>>

NextView == Aggregate

SpecView == InitView /\ [][NextView]_vars

(***************************** VWAP slicing **********************************)
MaxSliceQuantity == 10              \* config.totalQuantity is 1..MaxSliceQuantity
MaxSlots == 2                       \* time slots in the horizon
MaxVolume == 2                      \* a slot's averageVolume is 1..MaxVolume

\* getAggressivenessFactor, in tenths
getAggressivenessFactor(aggressiveness) ==
    CASE aggressiveness = "passive" -> 7
      [] aggressiveness = "neutral" -> 10
      [] aggressiveness = "aggressive" -> 13
      [] OTHER -> 10

RECURSIVE sumSeq(_)
sumSeq(s) == IF s = <<>> THEN 0 ELSE Head(s) + sumSeq(Tail(s))

RECURSIVE insertByQuantity(_, _, _)
insertByQuantity(x, sorted, quantities) ==
    IF sorted = <<>> THEN <<x>>
    ELSE IF quantities[Head(sorted)] - quantities[x] >= 0
         THEN <<Head(sorted)>> \o insertByQuantity(x, Tail(sorted), quantities)
         ELSE <<x>> \o sorted

RECURSIVE sortedIndices(_, _)
\* The indices 1..n by descending quantity, equal quantities in index order (the sort
\* is stable).
sortedIndices(n, quantities) ==
    IF n = 0 THEN <<>>
    ELSE insertByQuantity(n, sortedIndices(n - 1, quantities), quantities)

RECURSIVE adjustOnce(_, _, _)
\* The while loop of normalizeSliceQuantities: one step of 1 towards the total on each
\* slice in turn, skipped where it would leave the slice at 0 or less.
adjustOnce(quantities, indices, remaining) ==
    IF remaining = 0 \/ indices = <<>> THEN quantities
    ELSE LET index == Head(indices)
             adjustment == IF remaining > 0 THEN 1 ELSE 0 - 1
         IN IF quantities[index] + adjustment > 0
            THEN adjustOnce([quantities EXCEPT ![index] = @ + adjustment], Tail(indices),
                            remaining - adjustment)
            ELSE adjustOnce(quantities, Tail(indices), remaining)

\* normalizeSliceQuantities(slices, totalQuantity), on the target quantities
normalizeSliceQuantities(quantities, totalQuantity) ==
    LET diff == totalQuantity - sumSeq(quantities)
    IN IF diff # 0
       THEN adjustOnce(quantities, sortedIndices(Len(quantities), quantities), diff)
       ELSE quantities

\* calculateSliceDistribution(config, timeSlots, startTime): Math.round of the share
\* of the total that the slot's volume gives, times the factor; then the
\* normalisation.
calculateSliceDistribution(cfg, timeSlots) ==
    LET totalVolume == sumSeq(timeSlots)
        aggressivenessFactor == getAggressivenessFactor(cfg.aggressiveness)
        targets ==
            [i \in DOMAIN timeSlots |->
                Round(timeSlots[i] * cfg.totalQuantity * aggressivenessFactor,
                      totalVolume * 10)]
        normalized == normalizeSliceQuantities(targets, cfg.totalQuantity)
    IN [i \in DOMAIN timeSlots |->
           [sliceNumber |-> i - 1, targetQuantity |-> normalized[i], status |-> "PENDING"]]

\* A VWAPConfig and the averageVolume of the time slots in its horizon.
InitVwap ==
    /\ \E q \in 1..MaxSliceQuantity, a \in {"passive", "neutral", "aggressive"},
          n \in 1..MaxSlots :
          \E timeSlots \in [1..n -> 1..MaxVolume] :
              slicing = [kind |-> "config",
                         config |-> [totalQuantity |-> q, aggressiveness |-> a],
                         timeSlots |-> timeSlots,
                         slices |-> <<>>]
    /\ aggregated = NoView
    /\ mapHeap = <<>> /\ bookHeap = <<>> /\ storeBooks = 0 /\ snapshot = NoSnapshot
    /\ currentOrder = NoOrder /\ isExecuting = FALSE /\ isPaused = FALSE
    /\ routingPlan = NoPlan /\ currentStepIndex = 0 - 1 /\ executionSteps = <<>>
    /\ animationTimerId = 0 /\ timers = {} /\ shown = <<>>
    /\ calls = 0 /\ lastToggle = NoToggle
    /\ order = [side |-> BID, quantity |-> 0, price |-> 0]
    /\ venues = <<>>
    /\ orderBooks = <<>>
    /\ config = createDefaultConfig
    /\ outcome = NoOutcome
    /\ replays = <<>>
    /\ executionDetails = <<>>
    /\ pc = "vwap"
    /\ SimIdle
    /\ WalkIdle
    /\ RetryIdle

\* calculateVWAPStrategy(config, volumeProfile): the slices
CalculateVWAPStrategy ==
    /\ pc = "vwap"
    /\ slicing.kind = "config"
    /\ slicing' = [slicing EXCEPT
                     !.kind = "strategy",
                     !.slices = calculateSliceDistribution(slicing.config, slicing.timeSlots)]
    /\ UNCHANGED <<order, venues, orderBooks, config, outcome, replays, executionDetails,
                   pc, simVars, walkVars, retryVars, heapVars, playVars, calls, lastToggle,
                   aggregated>>

NextVwap == CalculateVWAPStrategy

SpecVwap == InitVwap /\ [][NextVwap]_vars

(***************************** properties ***********************************)
Routed == pc \in {"routed", "replayed"}
IsPlan == outcome.kind = "plan"
Decisions == outcome.plan.decisions

\* The ids of the venues that are active and have a book.
EligibleIds == {venues[i].id : i \in {k \in DOMAIN venues :
                                        venues[k].active /\ venues[k].id \in DOMAIN orderBooks}}
RECURSIVE QuantityOfSide(_)
QuantityOfSide(levels) ==
    IF levels = <<>> THEN 0 ELSE Head(levels).quantity + QuantityOfSide(Tail(levels))
RECURSIVE QuantityOfVenues(_)
QuantityOfVenues(ids) ==
    IF ids = {} THEN 0
    ELSE LET v == CHOOSE x \in ids : TRUE
         IN QuantityOfSide(IF order.side = BID THEN orderBooks[v].asks
                           ELSE orderBooks[v].bids)
            + QuantityOfVenues(ids \ {v})
\* The quantity the eligible venues offer on the side the order consumes.
Liquidity == QuantityOfVenues(EligibleIds)

RECURSIVE QuantitySum(_, _)
QuantitySum(ds, n) == IF n = 0 THEN 0 ELSE ds[n].quantity + QuantitySum(ds, n - 1)

\* What the best-price walk emitted, before the post-processing of the plan.
WalkDecisions ==
    executeBestPriceStrategy(order, filterVenues(venues, orderBooks, config), orderBooks)

\* A side's prices strictly decrease (bids) or strictly increase (asks) with depth.
StrictlyDecreasing(levels) ==
    \A i \in 1..(Len(levels) - 1) : levels[i].price > levels[i + 1].price
StrictlyIncreasing(levels) ==
    \A i \in 1..(Len(levels) - 1) : levels[i].price < levels[i + 1].price
\* Every book of the map meets the monotonic book invariant and is not crossed.
MonotonicBooks ==
    \A v \in DOMAIN orderBooks :
        /\ StrictlyDecreasing(orderBooks[v].bids)
        /\ StrictlyIncreasing(orderBooks[v].asks)
        /\ (orderBooks[v].bids # <<>> /\ orderBooks[v].asks # <<>>) =>
              orderBooks[v].bids[1].price < orderBooks[v].asks[1].price

\* Every level of every book holds a positive quantity.
PositiveLevels ==
    \A v \in DOMAIN orderBooks :
        \A side \in {"bids", "asks"} :
            \A i \in DOMAIN orderBooks[v][side] : orderBooks[v][side][i].quantity > 0

\* C1 (as claimed): replay consistency.  For every decision d of a returned plan,
\* simulateExecution on the book of d's venue, for d's quantity, on the same books,
\* returns an avgPrice equal to d.expectedPrice.  Stated for the plans of the default
\* configuration over books that meet the monotonic book invariant and hold no empty
\* level.
C1_ReplayConsistency ==
    (pc = "replayed" /\ config = createDefaultConfig /\ MonotonicBooks /\ PositiveLevels) =>
        \A i \in DOMAIN Decisions :
            replays[i].avgPrice.num = Decisions[i].expectedPrice * replays[i].avgPrice.den

\* C2: allocation conservation.  In every returned plan the decisions' quantities sum
\* to at most order.quantity, and plan.totalQuantity is that sum.
C2_AllocationConservation ==
    IsPlan =>
        /\ QuantitySum(Decisions, Len(Decisions)) <= order.quantity
        /\ outcome.plan.totalQuantity = QuantitySum(Decisions, Len(Decisions))
C2_Witness ==
    /\ IsPlan
    /\ Len(Decisions) >= 2
    /\ Decisions[1].venueId # Decisions[2].venueId
    /\ Decisions[1].quantity > 0 /\ Decisions[2].quantity > 0
    /\ outcome.plan.totalQuantity < order.quantity

\* C3 (as claimed): full fill.  Under the default configuration a call whose eligible
\* venues offer at least order.quantity returns a plan with totalQuantity =
\* order.quantity, and a plan has less only when they offer less.
C3_FullFill ==
    (Routed /\ config = createDefaultConfig /\ order.quantity > 0) =>
        /\ Liquidity >= order.quantity =>
              IsPlan /\ outcome.plan.totalQuantity = order.quantity
        /\ (IsPlan /\ outcome.plan.totalQuantity < order.quantity) =>
              Liquidity < order.quantity
\* C3 (amended): the same, provided the best-price walk emitted at most maxVenues (10)
\* decisions; a plan has less than order.quantity only when the eligible venues offer
\* less or the walk emitted more than maxVenues decisions, of which the plan keeps
\* the first maxVenues.
C3_FullFillUnlessTruncated ==
    (Routed /\ config = createDefaultConfig /\ order.quantity > 0) =>
        /\ (Liquidity >= order.quantity /\ Len(WalkDecisions) <= config.maxVenues) =>
              IsPlan /\ outcome.plan.totalQuantity = order.quantity
        /\ (IsPlan /\ outcome.plan.totalQuantity < order.quantity) =>
              Liquidity < order.quantity \/ Len(WalkDecisions) > config.maxVenues
C3_Witness ==
    /\ IsPlan /\ config = createDefaultConfig
    /\ Len(WalkDecisions) = config.maxVenues
    /\ Liquidity > order.quantity
    /\ outcome.plan.totalQuantity = order.quantity

C5_LimitRespected ==
    (IsPlan /\ order.price # 0 /\ MonotonicBooks) =>
        \A i \in DOMAIN Decisions :
            IF order.side = BID THEN Decisions[i].expectedPrice <= order.price
            ELSE Decisions[i].expectedPrice >= order.price

\* C7 (as claimed): under the default configuration every decision of a returned plan
\* has quantity > 0, whatever levels of quantity 0 the books hold.  Stated for books
\* that meet the monotonic book invariant.
C7_PositiveQuantities ==
    (IsPlan /\ config = createDefaultConfig /\ MonotonicBooks) =>
        \A i \in DOMAIN Decisions : Decisions[i].quantity > 0

\* C8: priorities.  The walk numbers its decisions 0, 1, 2, ... in allocation order;
\* the decisions of a returned plan are decisions of the walk, in strictly increasing
\* priority (so pairwise distinct and sorted), also after the minimum-quantity filter
\* and the maxVenues cut; without the filter the plan's i-th decision has priority i-1.
C8_Priorities ==
    IsPlan =>
        /\ \A i \in DOMAIN WalkDecisions : WalkDecisions[i].priority = i - 1
        /\ \A i \in DOMAIN Decisions :
              \E k \in DOMAIN WalkDecisions : Decisions[i] = WalkDecisions[k]
        /\ \A i \in 1..(Len(Decisions) - 1) :
              Decisions[i].priority < Decisions[i + 1].priority
        /\ config.minQuantityPerVenue = 0 =>
              \A i \in DOMAIN Decisions : Decisions[i].priority = i - 1
\* The filter dropped the walk's first decision and the cut its last one.
C8_Witness ==
    /\ IsPlan
    /\ Len(WalkDecisions) = 3 /\ Len(Decisions) = 1
    /\ config.minQuantityPerVenue > 0 /\ config.maxVenues = 1
    /\ Decisions[1].priority = 1

\* C9: fail-fast validation.  A call throws when order.quantity <= 0 (checked first),
\* when the venue list is empty, when the order-book map is empty, and when no venue
\* is both active and in the map; with an eligible venue none of these four errors is
\* thrown, and a plan holds decisions of eligible venues only.
C9_FailFast ==
    Routed =>
        /\ order.quantity <= 0 => outcome = Thrown(ErrInvalidOrder)
        /\ (order.quantity > 0 /\ venues = <<>>) => outcome = Thrown(ErrNoVenues)
        /\ (order.quantity > 0 /\ venues # <<>> /\ DOMAIN orderBooks = {}) =>
              outcome = Thrown(ErrNoOrderBooks)
        /\ (order.quantity > 0 /\ venues # <<>> /\ DOMAIN orderBooks # {}
                /\ EligibleIds = {}) =>
              outcome = Thrown(ErrNoEligibleVenues)
        /\ (order.quantity > 0 /\ EligibleIds # {}) =>
              /\ outcome.kind \in {"plan", "error"}
              /\ outcome.kind = "error" =>
                    outcome.message \notin {ErrInvalidOrder, ErrNoVenues, ErrNoOrderBooks,
                                            ErrNoEligibleVenues}
              /\ IsPlan => \A i \in DOMAIN Decisions : Decisions[i].venueId \in EligibleIds
\* An inactive venue that has a book is left out, and the plan is made of the other one.
C9_Witness ==
    /\ IsPlan
    /\ \E i \in DOMAIN venues : ~venues[i].active /\ venues[i].id \in DOMAIN orderBooks
    /\ Len(Decisions) = 1 /\ Decisions[1].quantity = order.quantity

\* C10: a call that passes validation and has an eligible venue, with any strategy
\* other than BEST_PRICE, throws the not-implemented error of that strategy and
\* returns no plan.
C10_StrategyNotImplemented ==
    (Routed /\ order.quantity > 0 /\ EligibleIds # {} /\ config.strategy # BEST_PRICE) =>
        outcome = ThrownNotImplemented(config.strategy)
C10_Witness ==
    /\ Routed /\ order.quantity > 0 /\ EligibleIds # {}
    /\ config.strategy = "MINIMIZE_COST"
    /\ outcome.kind = "error" /\ outcome.message = ErrNotImplemented

\* The quantity left after the plan's post-processing of the walk: totalAllocated.
SurvivingQuantity ==
    LET ds == limitMaxVenues(filterMinQuantity(WalkDecisions, config), config)
    IN QuantitySum(ds, Len(ds))
\* A call that passes validation, has an eligible venue and runs the best-price strategy.
RunsBestPrice ==
    Routed /\ order.quantity > 0 /\ EligibleIds # {} /\ config.strategy = BEST_PRICE

\* C11 (as claimed): insufficient liquidity.  With allowPartialFills false, a call whose
\* eligible venues offer L < order.quantity throws the insufficient-liquidity error
\* with requested = order.quantity and available = L.
C11_InsufficientLiquidity ==
    (RunsBestPrice /\ ~config.allowPartialFills /\ Liquidity < order.quantity) =>
        outcome = ThrownInsufficient(order.quantity, Liquidity)
\* C11 (amended): with allowPartialFills false, a call whose surviving decisions sum to
\* A with 0 < A < order.quantity throws the insufficient-liquidity error with requested
\* = order.quantity and available = A, and A is the eligible venues' liquidity L when
\* minQuantityPerVenue is 0 and the walk emitted at most maxVenues decisions; when A is
\* 0 (so when L is 0) the error is the unallocatable one.
C11_InsufficientAllocated ==
    (RunsBestPrice /\ ~config.allowPartialFills) =>
        /\ (0 < SurvivingQuantity /\ SurvivingQuantity < order.quantity) =>
              outcome = ThrownInsufficient(order.quantity, SurvivingQuantity)
        /\ (config.minQuantityPerVenue = 0 /\ Len(WalkDecisions) <= config.maxVenues
                /\ Liquidity < order.quantity) =>
              SurvivingQuantity = Liquidity
        /\ SurvivingQuantity = 0 => outcome = Thrown(ErrUnallocatable)
        /\ SurvivingQuantity >= order.quantity => IsPlan
\* Two venues that offer 1 each, an order for 3: requested 3, available 2.
C11_Witness ==
    /\ RunsBestPrice /\ ~config.allowPartialFills
    /\ config.minQuantityPerVenue = 0
    /\ Liquidity = 2 /\ order.quantity = 3
    /\ \A v \in EligibleIds : QuantityOfVenues({v}) = 1
    /\ outcome = ThrownInsufficient(3, 2)

\* The bids of the eligible venues, as a set of levels.
EligibleBids ==
    UNION {{orderBooks[v].bids[i] : i \in DOMAIN orderBooks[v].bids} : v \in EligibleIds}
\* An ASK order with a limit price below every bid of the eligible venues, of which one
\* at least holds quantity.
AskLimitBelowEveryBid ==
    /\ RunsBestPrice /\ config = createDefaultConfig
    /\ order.side = ASK /\ order.price # 0
    /\ \A l \in EligibleBids : order.price < l.price
    /\ \E l \in EligibleBids : l.quantity > 0

C13_ZeroAllocationIsError ==
    /\ (RunsBestPrice /\ SurvivingQuantity = 0) => outcome = Thrown(ErrUnallocatable)
    /\ (RunsBestPrice /\ Liquidity = 0) => outcome = Thrown(ErrUnallocatable)
    /\ (RunsBestPrice /\ config.minQuantityPerVenue > 0
            /\ \A i \in DOMAIN WalkDecisions :
                  WalkDecisions[i].quantity < config.minQuantityPerVenue) =>
          outcome = Thrown(ErrUnallocatable)
    /\ IsPlan => outcome.plan.totalQuantity > 0 /\ Len(Decisions) > 0
\* The walk allocated on both venues and the minimum-quantity filter dropped it all.
C13_Witness ==
    /\ RunsBestPrice /\ config.minQuantityPerVenue > 0
    /\ Len(WalkDecisions) = 2 /\ QuantitySum(WalkDecisions, 2) = 2
    /\ WalkDecisions[1].venueId # WalkDecisions[2].venueId
    /\ outcome = Thrown(ErrUnallocatable)

\* The levels the walk can touch: <<k, i>> is level i of the consumed side of the
\* book of the k-th venue of the list, for the venues that are active and have a book.
Slots ==
    UNION {{<<k, i>> : i \in DOMAIN (IF order.side = BID THEN orderBooks[venues[k].id].asks
                                     ELSE orderBooks[venues[k].id].bids)} :
            k \in {j \in DOMAIN venues :
                      venues[j].active /\ venues[j].id \in DOMAIN orderBooks}}
SlotLevel(s) ==
    IF order.side = BID THEN orderBooks[venues[s[1]].id].asks[s[2]]
    ELSE orderBooks[venues[s[1]].id].bids[s[2]]
\* Slot s is consumed before slot t: at a better price, or at the same price and
\* earlier in the order of the venue list and of the book.
ConsumedBefore(s, t) ==
    \/ IF order.side = BID THEN SlotLevel(s).price < SlotLevel(t).price
       ELSE SlotLevel(s).price > SlotLevel(t).price
    \/ /\ SlotLevel(s).price = SlotLevel(t).price
       /\ s[1] < t[1] \/ (s[1] = t[1] /\ s[2] < t[2])
SlotRank(s) == Cardinality({t \in Slots : ConsumedBefore(t, s)})
RECURSIVE SlotQuantity(_)
SlotQuantity(S) ==
    IF S = {} THEN 0
    ELSE LET s == CHOOSE x \in S : TRUE
         IN SlotLevel(s).quantity + SlotQuantity(S \ {s})
\* The quantity of the order still to allocate when the walk comes to slot s.
RemainingAt(s) ==
    order.quantity - SlotQuantity({t \in Slots : ConsumedBefore(t, s)})

WalkLevels == IF order.side = BID THEN orderBooks["V1"].asks ELSE orderBooks["V1"].bids
WalkLiquidity == QuantityOfSide(WalkLevels)
RECURSIVE ValueOfSide(_)
ValueOfSide(levels) ==
    IF levels = <<>> THEN 0
    ELSE Head(levels).price * Head(levels).quantity + ValueOfSide(Tail(levels))

\* C16: VWAP boundary.  calculateVWAP returns 0 for the quantity 0 and on an empty
\* side; for a quantity larger than the side's liquidity it returns (no error) the
\* quantity-weighted average price of all the levels of the side, which is 0 when the
\* side holds no quantity.
C16_VwapBoundary ==
    vwap # NoVwap =>
        /\ order.quantity = 0 => vwap.value.num = 0
        /\ WalkLevels = <<>> => vwap.value.num = 0
        /\ WalkLiquidity = 0 => vwap.value.num = 0
        /\ (order.quantity > WalkLiquidity /\ WalkLiquidity > 0) =>
              /\ vwap.value.den > 0
              /\ vwap.value.num * WalkLiquidity = ValueOfSide(WalkLevels) * vwap.value.den
\* More is asked than two levels of different prices hold.
C16_Witness ==
    /\ vwap # NoVwap
    /\ Len(WalkLevels) = 2 /\ WalkLevels[1].price # WalkLevels[2].price
    /\ WalkLevels[1].quantity > 0 /\ WalkLevels[2].quantity > 0
    /\ order.quantity > WalkLiquidity
    /\ vwap.value.num * WalkLiquidity = ValueOfSide(WalkLevels) * vwap.value.den

\* C17: same walk.  For a quantity q with 0 < q <= the liquidity of the consumed side,
\* simulateExecution works on the asks for a BID order and on the bids for an ASK
\* order, touches the levels calculateVWAP touches, in the book's order, takes from
\* each the quantity calculateVWAP takes, and returns calculateVWAP's value as avgPrice.
C17_SameWalk ==
    (vwap # NoVwap /\ replays # <<>> /\ pc = "walk"
        /\ 0 < order.quantity /\ order.quantity <= WalkLiquidity) =>
        /\ replays[1].side = (IF order.side = BID THEN "ask" ELSE "bid")
        /\ Len(replays[1].levels) = Len(vwap.takes)
        /\ \A i \in DOMAIN replays[1].levels :
              /\ replays[1].levels[i].price = WalkLevels[i].price
              /\ replays[1].levels[i].price = vwap.takes[i].price
              /\ replays[1].levels[i].quantityTaken = vwap.takes[i].takeQty
        /\ replays[1].avgPrice.num * vwap.value.den
              = vwap.value.num * replays[1].avgPrice.den
\* The quantity takes the first level and a part of the second.
C17_Witness ==
    /\ vwap # NoVwap /\ replays # <<>> /\ pc = "walk"
    /\ Len(replays[1].levels) = 2
    /\ replays[1].levels[1].quantityRemaining = 0
    /\ replays[1].levels[2].quantityRemaining > 0
    /\ replays[1].levels[1].price # replays[1].levels[2].price
    /\ order.quantity < WalkLiquidity

C6_MonotonicBook ==
    simBook # NoBook =>
        /\ StrictlyDecreasing(simBook.bids)
        /\ StrictlyIncreasing(simBook.asks)
        /\ simBook.spread > 0

(************************* properties of the store ***************************)
StoreMap == mapHeap[storeBooks]
StoreBooks == booksAt(Heap, storeBooks)
InactiveIds == {venues[i].id : i \in {j \in DOMAIN venues : ~ venues[j].active}}
\* The active venues that have a book with quantity on the side the order consumes.
LiquidIds ==
    {venues[i].id : i \in {j \in DOMAIN venues :
        /\ venues[j].active
        /\ mapHas(StoreMap, venues[j].id)
        /\ QuantityOfSide(sideLevels(StoreBooks[venues[j].id], bookSide(order))) > 0}}

\* C15: venue deactivation.  The store's orderBooks map has no entry for an inactive
\* venue, in particular right after toggleVenue turned it inactive; an executeOrder
\* made from that state gets a plan with no decision of an inactive venue, and gets
\* a plan, not an error, when an active venue with liquidity remains; right after
\* toggleVenue turned a venue active, the map holds for it the book that call
\* generated, in an OrderBook object no older map holds.
C15_VenueDeactivation ==
    /\ \A v \in InactiveIds : ~ mapHas(StoreMap, v)
    /\ pc = "executeOrder" =>
          /\ outcome.kind = "plan" =>
                \A i \in DOMAIN outcome.plan.decisions :
                    outcome.plan.decisions[i].venueId \notin InactiveIds
          /\ LiquidIds # {} => outcome.kind = "plan"
    /\ (pc = "toggleVenue" /\ lastToggle.active) =>
          /\ mapHas(StoreMap, lastToggle.venueId)
          /\ StoreBooks[lastToggle.venueId] = lastToggle.book
          /\ \E i \in DOMAIN venues, d \in StoreDraws :
                /\ venues[i].id = lastToggle.venueId
                /\ lastToggle.book = generateOrderBook(venues[i], basePrice, d)
          /\ \A r \in DOMAIN mapHeap \ {storeBooks} :
                mapHas(mapHeap[r], lastToggle.venueId) =>
                    mapGet(mapHeap[r], lastToggle.venueId) # mapGet(StoreMap, lastToggle.venueId)

\* A venue was turned inactive, an order of 2500 was then routed to the books of the
\* other venue alone, and the venue has just been turned active again.
C15_Witness ==
    /\ pc = "toggleVenue"
    /\ lastToggle.active
    /\ outcome.kind = "plan"
    /\ order.quantity = 2500
    /\ outcome.plan.totalQuantity = 2500
    /\ \A i \in DOMAIN outcome.plan.decisions :
          outcome.plan.decisions[i].venueId # lastToggle.venueId

\* C19: immutable snapshots.  updateOrderBooks and toggleVenue (and initializeMarket)
\* install a new orderBooks Map and never change an older one: a Map a reader obtained
\* from the store still has the keys it had, and each OrderBook in it the levels,
\* spread and midPrice it had, whatever the store did since.  executeOrder
\* (generateRoutingPlan, then simulateExecution) leaves the Map it read, the venues
\* and the order as they were.
C19_ImmutableSnapshots ==
    /\ snapshot.kind = "taken" =>
          /\ snapshot.ref \in DOMAIN mapHeap
          /\ entriesAt(Heap, snapshot.ref) = snapshot.seen
    /\ pc = "executeOrder" =>
          /\ orderBooks = StoreBooks
          /\ currentOrder.side = order.side
          /\ currentOrder.quantity = order.quantity
          /\ currentOrder.price = order.price

\* A reader holds the Map of two books that it obtained; since then the store has
\* updated the books, dropped a venue's entry and routed an order.
C19_Witness ==
    /\ snapshot.kind = "taken"
    /\ Len(snapshot.seen) = 2
    /\ storeBooks # snapshot.ref
    /\ Len(StoreMap) = 1
    /\ \E i \in DOMAIN snapshot.seen :
          /\ snapshot.seen[i].venueId = StoreMap[1].venueId
          /\ snapshot.seen[i].book # StoreBooks[StoreMap[1].venueId]
    /\ pc = "executeOrder"
    /\ outcome.kind = "plan"

\* C20: playback order.  After a successful executeOrder, executionSteps[i] carries
\* the venue, quantity and price of routingPlan.decisions[i], which are in ascending
\* priority, and currentStepIndex starts at -1; every timer tick before the end of
\* the playback raises currentStepIndex by exactly 1, so the steps displayed since
\* the playback began are 0, 1, 2, ... with no skip and no repeat; currentStepIndex
\* is always within -1 .. executionSteps.length - 1.
C20_PlaybackOrder ==
    /\ routingPlan # NoPlan =>
          LET decisions == routingPlan.plan.decisions
          IN /\ Len(executionSteps) = Len(decisions)
             /\ \A i \in DOMAIN decisions :
                   /\ executionSteps[i].stepNumber = i - 1
                   /\ executionSteps[i].venueId = decisions[i].venueId
                   /\ executionSteps[i].quantity = decisions[i].quantity
                   /\ executionSteps[i].price = decisions[i].expectedPrice
             /\ \A i, j \in DOMAIN decisions :
                   i < j => decisions[i].priority < decisions[j].priority
    /\ (pc = "executeOrder" /\ outcome.kind = "plan") => currentStepIndex = 0 - 1
    /\ currentStepIndex \in (0 - 1)..(Len(executionSteps) - 1)
    /\ \A i \in DOMAIN shown : shown[i] = i - 1
    /\ currentStepIndex = Len(shown) - 1

\* The third and last step of a plan is on display, after the first and the second.
C20_Witness ==
    /\ isExecuting
    /\ Len(executionSteps) = 3
    /\ shown = <<0, 1, 2>>
    /\ currentStepIndex = 2

\* The decisions of the store's routing plan that name venue v, in plan order.
PlanDecisionsOf(v) ==
    LET ds == routingPlan.plan.decisions
    IN Filter(ds, {d \in {ds[i] : i \in DOMAIN ds} : d.venueId = v})
PlanVenueIds ==
    {routingPlan.plan.decisions[i].venueId : i \in DOMAIN routingPlan.plan.decisions}

\* C21 (as claimed): per-venue execution detail.  After a successful executeOrder, for
\* every venue v of the routing plan, executionDetails[v].totalQuantity is the sum of
\* the quantities of the plan's decisions on v, and the (price, quantityTaken) levels
\* of executionDetails[v] are the price levels and quantities of those decisions.
C21_PerVenueDetail ==
    routingPlan # NoPlan =>
        \A v \in PlanVenueIds :
            LET ds == PlanDecisionsOf(v)
                detail == executionDetails[v]
            IN /\ v \in DOMAIN executionDetails
               /\ detail.totalQuantity = totalQuantityOf(ds)
               /\ Len(detail.levels) = Len(ds)
               /\ \A i \in DOMAIN ds :
                     /\ detail.levels[i].price = ds[i].expectedPrice
                     /\ detail.levels[i].quantityTaken = ds[i].quantity

\* The taker fee, in basis points, of the venue a decision names.
TakerFeeOf(venueId) ==
    venues[CHOOSE i \in DOMAIN venues : venues[i].id = venueId].takerFee
\* The sum over the plan's decisions of expectedPrice * quantity.
PlanPriceSum ==
    LET ds == routingPlan.plan.decisions
    IN SumOver(ds, [d \in {ds[i] : i \in DOMAIN ds} |-> d.expectedPrice * d.quantity])

\* C24 (as claimed): plan cost with fees.  For every plan returned under the default
\* config (considerFees = true), estimatedAvgPrice * totalQuantity is the sum over the
\* decisions of expectedPrice * quantity, and estimatedTotalCost is that sum plus the
\* sum over the decisions of expectedPrice * quantity * takerFee of the decision's venue.
C24_PlanCostWithFees ==
    routingPlan # NoPlan =>
        LET plan == routingPlan.plan
            ds == plan.decisions
        IN /\ plan.estimatedAvgPrice = [num |-> PlanPriceSum, den |-> plan.totalQuantity]
           /\ (plan.estimatedTotalCost - PlanPriceSum) * 10000 =
                 SumOver(ds, [d \in {ds[i] : i \in DOMAIN ds} |->
                                 d.expectedPrice * d.quantity * TakerFeeOf(d.venueId)])

\* C22: a failed routing leaves the prior state untouched.  When generateRoutingPlan
\* throws inside executeOrder, the error goes to the caller, and routingPlan,
\* executionSteps, executionDetails, currentStepIndex, animationTimerId and orderBooks
\* keep the values they had before the call, no timer is started, and the only changes
\* to the store are currentOrder, set to the submitted order with status REJECTED, and
\* isExecuting, set to false.
C22_FailedRoutingKeepsState ==
    [][(pc' = "executeOrder" /\ calls' = calls + 1 /\ outcome'.kind = "error") =>
          /\ UNCHANGED <<routingPlan, executionSteps, executionDetails, currentStepIndex,
                         animationTimerId, timers, mapHeap, bookHeap, storeBooks, venues,
                         isPaused>>
          /\ currentOrder' = withStatus(order', "REJECTED")
          /\ isExecuting' = FALSE]_vars

\* An executeOrder has just failed while the playback of an earlier order was showing
\* a step: the earlier plan and its timer are still there.
C22_Witness ==
    /\ pc = "executeOrder"
    /\ outcome.kind = "error"
    /\ currentOrder.status = "REJECTED"
    /\ routingPlan # NoPlan
    /\ currentStepIndex >= 0
    /\ timers # {}

\* The positions of the walk's decisions that reach the minimum quantity.
PassingWalk ==
    {k \in DOMAIN WalkDecisions : WalkDecisions[k].quantity >= config.minQuantityPerVenue}

\* C23: post-processing.  Every decision of a returned plan has quantity >=
\* config.minQuantityPerVenue; with maxVenues > 0 the plan has at most maxVenues
\* decisions; the plan's decisions are the earliest allocated (lowest priority number)
\* of the walk's decisions that reach the minimum, in that order; totalQuantity and the
\* price metrics are computed over these surviving decisions only.
C23_PostProcessing ==
    (IsPlan /\ Routed) =>
        /\ \A i \in DOMAIN Decisions : Decisions[i].quantity >= config.minQuantityPerVenue
        /\ config.maxVenues > 0 => Len(Decisions) <= config.maxVenues
        /\ Len(Decisions) = IF config.maxVenues > 0
                            THEN Min(Cardinality(PassingWalk), config.maxVenues)
                            ELSE Cardinality(PassingWalk)
        /\ \A i \in DOMAIN Decisions :
              \E k \in PassingWalk :
                  /\ Decisions[i] = WalkDecisions[k]
                  /\ Cardinality({j \in PassingWalk : j < k}) = i - 1
        /\ outcome.plan.totalQuantity = totalQuantityOf(Decisions)
        /\ LET priceSum ==
                   SumOver(Decisions, [d \in {Decisions[i] : i \in DOMAIN Decisions} |->
                                          d.expectedPrice * d.quantity])
               fees == SumOver(Decisions, [d \in {Decisions[i] : i \in DOMAIN Decisions} |->
                                              d.expectedFees])
           IN /\ outcome.plan.estimatedAvgPrice =
                     [num |-> priceSum, den |-> totalQuantityOf(Decisions)]
              /\ outcome.plan.estimatedTotalCost = priceSum + fees

\* Of the walk's three decisions only the second reaches the minimum: it alone
\* survives, under maxVenues = 1, and the plan's total is its quantity.
C23_Witness ==
    /\ IsPlan /\ Routed
    /\ config.minQuantityPerVenue > 0 /\ config.maxVenues = 1
    /\ Len(WalkDecisions) = 3
    /\ PassingWalk = {2}
    /\ Len(Decisions) = 1
    /\ outcome.plan.totalQuantity = config.minQuantityPerVenue
    /\ outcome.plan.totalQuantity < totalQuantityOf(WalkDecisions)

RECURSIVE QuantityBefore(_, _)
\* The quantity of the first n levels.
QuantityBefore(levels, n) ==
    IF n = 0 THEN 0 ELSE levels[n].quantity + QuantityBefore(levels, n - 1)
RECURSIVE TakenValue(_, _)
\* The sum of price * quantityTaken over the first n executed levels.
TakenValue(executed, n) ==
    IF n = 0 THEN 0
    ELSE executed[n].price * executed[n].quantityTaken + TakenValue(executed, n - 1)
RECURSIVE TakenQuantity(_, _)
TakenQuantity(executed, n) ==
    IF n = 0 THEN 0 ELSE executed[n].quantityTaken + TakenQuantity(executed, n - 1)

\* C25: replay conservation.  The levels simulateExecution records are the first
\* levels of the consuming side, in the book's order, as many as the quantity needs;
\* each has quantityTaken = min(remaining, level.quantity) and quantityTaken +
\* quantityRemaining = level.quantity; the quantities taken sum to min(quantityToFill,
\* liquidity of the side); avgPrice * quantityToFill is the sum of price *
\* quantityTaken, the divisor being the quantity asked also when the book cannot
\* cover it.
C25_ReplayConservation ==
    (pc = "walk" /\ replays # <<>>) =>
        LET r == replays[1]
            n == Len(r.levels)
            q == order.quantity
        IN /\ r.totalQuantity = q
           /\ n <= Len(WalkLevels)
           /\ n < Len(WalkLevels) => QuantityBefore(WalkLevels, n) >= q
           /\ n > 0 => QuantityBefore(WalkLevels, n - 1) < q
           /\ \A i \in 1..n :
                 /\ r.levels[i].price = WalkLevels[i].price
                 /\ r.levels[i].quantityTaken =
                       Min(q - QuantityBefore(WalkLevels, i - 1), WalkLevels[i].quantity)
                 /\ r.levels[i].quantityTaken + r.levels[i].quantityRemaining
                       = WalkLevels[i].quantity
           /\ TakenQuantity(r.levels, n) = Min(q, WalkLiquidity)
           /\ r.avgPrice.den > 0
           /\ r.avgPrice.num * q = TakenValue(r.levels, n) * r.avgPrice.den

\* The book holds less than the quantity asked: two levels are taken whole and the
\* average is over the quantity asked.
C25_Witness ==
    /\ pc = "walk" /\ replays # <<>>
    /\ Len(replays[1].levels) = 2
    /\ replays[1].levels[1].quantityTaken > 0
    /\ replays[1].levels[2].quantityTaken > 0
    /\ WalkLiquidity < order.quantity
    /\ replays[1].avgPrice.den = order.quantity

\* The prices at which an active venue's book holds quantity on a side.
QuotedPrices(side) ==
    {p \in BidPrices \cup AskPrices :
        \E i \in DOMAIN venues :
            /\ venues[i].active
            /\ venues[i].id \in DOMAIN orderBooks
            /\ \E k \in DOMAIN orderBooks[venues[i].id][side] :
                  /\ orderBooks[venues[i].id][side][k].price = p
                  /\ orderBooks[venues[i].id][side][k].quantity > 0}

\* C26 (as claimed): consolidated best prices.  In the aggregated view the reported
\* best bid is the highest price at which an active venue has bid quantity and the
\* reported best ask is the lowest price at which an active venue has ask quantity
\* (0 when there is none); the books of inactive venues contribute nothing.
C26_ConsolidatedBest ==
    aggregated # NoView =>
        /\ IF QuotedPrices("bids") = {} THEN aggregated.bestBid = 0
           ELSE /\ aggregated.bestBid \in QuotedPrices("bids")
                /\ \A p \in QuotedPrices("bids") : p <= aggregated.bestBid
        /\ IF QuotedPrices("asks") = {} THEN aggregated.bestAsk = 0
           ELSE /\ aggregated.bestAsk \in QuotedPrices("asks")
                /\ \A p \in QuotedPrices("asks") : aggregated.bestAsk <= p

\* C27 (as claimed): VWAP slice normalisation.  For every VWAPConfig with
\* totalQuantity > 0 and every aggressiveness, the targetQuantity values of the slices
\* calculateVWAPStrategy returns sum exactly to config.totalQuantity.
C27_SlicesSumToTotal ==
    slicing.kind = "strategy" =>
        sumSeq([i \in DOMAIN slicing.slices |-> slicing.slices[i].targetQuantity])
            = slicing.config.totalQuantity

\* C28 (as claimed): single playback timer.  At any time at most one playback timer
\* advances the store, also when executeOrder is called again during a playback, and
\* it is the one the store holds in animationTimerId; once stopExecution has ended a
\* playback (animationTimerId is null) no timer is left to change the store, so
\* currentStepIndex stays -1 until the next executeOrder.
C28_SinglePlaybackTimer ==
    /\ Cardinality(timers) <= 1
    /\ timers \subseteq {animationTimerId}
    /\ animationTimerId = 0 => (timers = {} /\ currentStepIndex = 0 - 1)

\* C29 (as claimed): order status progression in the store.  Under any interleaving of
\* executeOrder calls and timer ticks, an order recorded as REJECTED never becomes
\* FILLED; currentOrder becomes FILLED only from SUBMITTED, when the plan in the store
\* is the one generated for it by the last executeOrder and the playback has shown
\* every one of its execution steps.
C29_StatusProgression ==
    [][ /\ currentOrder.status = "REJECTED" => currentOrder'.status # "FILLED"
        /\ (currentOrder.status # "FILLED" /\ currentOrder'.status = "FILLED") =>
              /\ currentOrder = withStatus(order, "SUBMITTED")
              /\ outcome.kind = "plan"
              /\ routingPlan = outcome
              /\ Len(shown) = Len(executionSteps) ]_vars

\* The store once stopExecution has ended a playback.
PlaybackEnded ==
    /\ animationTimerId = 0
    /\ isExecuting = FALSE
    /\ currentStepIndex = 0 - 1
    /\ currentOrder.status = "FILLED"

\* C30: playback terminates.  After a successful executeOrder with n execution steps
\* the timer it registered is live; while it keeps ticking, each tick before the end
\* shows the next step, and the tick that ends the playback (stopExecution) comes
\* only after all n steps have been shown, clears that timer and leaves
\* isExecuting = false, animationTimerId = null, currentStepIndex = -1 and
\* currentOrder.status = FILLED; a playback that was started always reaches that end.
C30_PlaybackTerminates ==
    /\ [][ /\ (pc' = "executeOrder" /\ calls' = calls + 1 /\ outcome'.kind = "plan") =>
                 /\ animationTimerId' # 0
                 /\ animationTimerId' \in timers'
                 /\ shown' = <<>>
           /\ (animationTimerId # 0 /\ animationTimerId' = animationTimerId
                  /\ shown' # shown) =>
                 /\ Len(shown) < Len(executionSteps)
                 /\ shown' = Append(shown, Len(shown))
                 /\ animationTimerId \in timers'
           /\ (animationTimerId # 0 /\ animationTimerId' = 0) =>
                 /\ Len(shown) = Len(executionSteps)
                 /\ animationTimerId \notin timers'
                 /\ PlaybackEnded' ]_vars
    /\ (animationTimerId # 0) ~> PlaybackEnded

\* One executeOrder after initializeMarket and nothing else but ticks: the playback of
\* a plan of three steps has ended and no timer is left.
C30_Witness ==
    /\ calls = 2
    /\ outcome.kind = "plan"
    /\ Len(executionSteps) = 3
    /\ PlaybackEnded
    /\ timers = {}

====
